---- MODULE Spec2Model ----
(***************************************************************************)
(* Verification model of fence (Use-Tusk/fence): the Linux bubblewrap      *)
(* mount plan, the macOS network parameters, the CONNECT proxy decision,   *)
(* the command preflight, the SSH verdict and the policy merge.            *)
(*                                                                         *)
(* A path is the sequence of its components: "/" is <<>>, "/tmp/w" is      *)
(* <<"tmp", "w">>.  A host pattern, a host and a command are sequences of  *)
(* one-character strings or of words, as noted where they are used.        *)
(***************************************************************************)
EXTENDS Integers, Sequences, FiniteSets, TLC

VARIABLES
    env,            \* host environment of one invocation: cwd, filesystem, features, executable
    cfg,            \* the policy (config.Config), or the nil policy
    bridge,         \* *LinuxBridge argument (nil or the two socket paths)
    reverseBridge,  \* *ReverseBridge argument (nil or ports + socket paths)
    opts,           \* LinuxSandboxOptions
    bwrapArgs,      \* the bwrap argument vector built so far
    innerScript,    \* the script passed to "<shell> -c"
    pc,             \* position of the invocation: "start" or "done"
    aux             \* state of the other components (proxy, preflight, ssh, merge, macOS)

vars == <<env, cfg, bridge, reverseBridge, opts, bwrapArgs, innerScript, pc, aux>>

(***************************************************************************)
(* Bounds of the model.                                                    *)
(***************************************************************************)
MaxEntries == 2     \* total number of entries over the filesystem lists of a policy
MaxDomains == 2     \* entries of allowed_domains / denied_domains

(***************************************************************************)
(* Paths.                                                                  *)
(***************************************************************************)
Root == <<>>

Join(p, rel) == p \o rel

Dir(p) == IF Len(p) = 0 THEN p ELSE SubSeq(p, 1, Len(p) - 1)

\* a is p itself or an ancestor directory of p
IsAncestorOrSelf(a, p) == Len(a) <= Len(p) /\ SubSeq(p, 1, Len(a)) = a

IsAncestor(a, p) == Len(a) < Len(p) /\ SubSeq(p, 1, Len(a)) = a

\* strings.HasPrefix(p, "/<top>/")
HasTopPrefix(p, top) == Len(p) >= 2 /\ p[1] = top

HomeDir == <<"h">>
TempDir == <<"tmp">>
DevNull == <<"dev", "null">>

RECURSIVE SeqToSet(_)
SeqToSet(s) == IF s = <<>> THEN {} ELSE {Head(s)} \cup SeqToSet(Tail(s))

RECURSIVE Contains(_, _)
Contains(s, x) == IF s = <<>> THEN FALSE ELSE (Head(s) = x \/ Contains(Tail(s), x))


RECURSIVE SetToSeq(_)
SetToSeq(S) == IF S = {} THEN <<>> ELSE LET x == CHOOSE y \in S : TRUE IN <<x>> \o SetToSeq(S \ {x})

\* all orderings of a finite set (Go iterates a map in an unspecified order)
RECURSIVE Orderings(_)
Orderings(S) ==
    IF S = {} THEN {<<>>}
    ELSE UNION {{<<x>> \o t : t \in Orderings(S \ {x})} : x \in S}

(***************************************************************************)
(* The host filesystem as the builder observes it (os.Stat, os.Lstat,      *)
(* syscall.Stat, filepath.EvalSymlinks).  env.fs has the directories, the  *)
(* regular files and the symbolic links (pairs <<link, target>>).          *)
(***************************************************************************)
LinkTarget(p) == (CHOOSE l \in env.fs.links : l[1] = p)[2]

isSymlink(p) == \E l \in env.fs.links : l[1] = p

\* the object os.Stat sees at p (symlinks followed)
StatPath(p) == IF isSymlink(p) THEN LinkTarget(p) ELSE p

fileExists(p) == StatPath(p) \in (env.fs.dirs \cup env.fs.files)

isDirectory(p) == StatPath(p) \in env.fs.dirs

canMountOver(p) == IF isSymlink(p) THEN FALSE ELSE fileExists(p)

\* paths below these mount points live on another device than "/"
OtherDeviceRoots == {<<"mnt", "c">>, <<"mnt", "wsl">>}

OnRootDevice(p) == ~ \E m \in OtherDeviceRoots : IsAncestorOrSelf(m, StatPath(p))

\* sameDevice("/", p): a failing stat errs on the side of "same"
sameDevice(p) == IF ~fileExists(p) THEN TRUE ELSE OnRootDevice(p)

\* intermediaryDirs("/", targetDir): the chain /a, /a/b, ... , targetDir;
\* filepath.Rel("/", "/") is ".", so the chain of the root is the root itself
intermediaryDirs(targetDir) ==
    IF Len(targetDir) = 0 THEN <<Root>>
    ELSE [i \in 1..Len(targetDir) |-> SubSeq(targetDir, 1, i)]

\* filepath.EvalSymlinks: fails on a missing path, else the resolved path
EvalSymlinksOK(p) == fileExists(p)
EvalSymlinks(p) == StatPath(p)

(***************************************************************************)
(* Policy path entries.  An entry is [kind, path, glob]: kind "abs" is an  *)
(* absolute path, "rel" a path written "./x" (or a bare relative one),     *)
(* "tilde" a path written "~" or "~/x"; glob = TRUE stands for the pattern *)
(* "<path>/*".                                                             *)
(***************************************************************************)
Entry(k, p, g) == [kind |-> k, path |-> p, glob |-> g]

ContainsGlobChars(e) == e.glob

\* NormalizePath: tilde and relative expansion, then symlink resolution of
\* a non-glob pattern (the original is kept when resolution fails)
NormalizePath(e) ==
    LET expanded == CASE e.kind = "tilde" -> Join(HomeDir, e.path)
                      [] e.kind = "rel"   -> Join(env.cwd, e.path)
                      [] OTHER            -> e.path
    IN  IF ~e.glob /\ EvalSymlinksOK(expanded)
        THEN Entry("abs", EvalSymlinks(expanded), FALSE)
        ELSE Entry("abs", expanded, e.glob)

\* directory entries of d, as a glob "d/*" finds them (symlinks not followed)
Children(d) ==
    {p \in env.fs.dirs \cup env.fs.files \cup {l[1] : l \in env.fs.links} :
        Len(p) = Len(d) + 1 /\ Dir(p) = d}

\* ExpandGlobPatterns: the existing paths matched by the glob entries
RECURSIVE ExpandGlobPatterns(_)
ExpandGlobPatterns(list) ==
    IF list = <<>> THEN <<>>
    ELSE LET e == Head(list)
             here == IF ContainsGlobChars(e)
                     THEN SetToSeq(Children(NormalizePath(e).path))
                     ELSE <<>>
         IN  here \o ExpandGlobPatterns(Tail(list))


(***************************************************************************)
(* Catalogs (dangerous.go).                                                *)
(***************************************************************************)
DangerousFiles ==
    << <<".gitconfig">>, <<".gitmodules">>, <<".bashrc">>, <<".bash_profile">>,
       <<".zshrc">>, <<".zprofile">>, <<".profile">>, <<".ripgreprc">>, <<".mcp.json">> >>

DangerousDirectories ==
    << <<".vscode">>, <<".idea">>, <<".claude", "commands">>, <<".claude", "agents">> >>

GetDefaultWritePaths ==
    << <<"dev", "stdout">>, <<"dev", "stderr">>, <<"dev", "null">>, <<"dev", "tty">>,
       <<"dev", "dtracehelper">>, <<"dev", "autofs_nowait">>,
       <<"tmp", "fence">>, <<"private", "tmp", "fence">>,
       Join(HomeDir, <<".npm", "_logs">>), Join(HomeDir, <<".fence", "debug">>) >>

GetDefaultReadablePaths ==
    << <<"bin">>, <<"sbin">>, <<"usr">>, <<"lib">>, <<"lib64">>, <<"etc">>, <<"proc">>,
       <<"sys">>, <<"dev">>, <<"System">>, <<"Library">>, <<"Applications">>,
       <<"private", "etc">>, <<"private", "var", "db">>, <<"private", "var", "run">>,
       <<"opt">>, <<"run">>, <<"tmp">>, <<"private", "tmp">>,
       <<"usr", "local">>, <<"opt", "homebrew">>, <<"nix">>, <<"snap">>,
       Join(HomeDir, <<".nvm">>), Join(HomeDir, <<".fnm">>), Join(HomeDir, <<".volta">>),
       Join(HomeDir, <<".n">>), Join(HomeDir, <<".pyenv">>), Join(HomeDir, <<".local", "pipx">>),
       Join(HomeDir, <<".rbenv">>), Join(HomeDir, <<".rvm">>), Join(HomeDir, <<".cargo", "bin">>),
       Join(HomeDir, <<".rustup">>), Join(HomeDir, <<"go", "bin">>), Join(HomeDir, <<".go">>),
       Join(HomeDir, <<".local", "bin">>), Join(HomeDir, <<"bin">>),
       Join(HomeDir, <<".bun", "bin">>), Join(HomeDir, <<".deno", "bin">>) >>

GitHooks == <<".git", "hooks">>
GitConfig == <<".git", "config">>

\* getMandatoryDenyPaths(cwd): concrete paths, .git/config included unconditionally
getMandatoryDenyPaths(cwd) ==
    [i \in 1..Len(DangerousFiles) |-> Join(cwd, DangerousFiles[i])]
    \o [i \in 1..Len(DangerousDirectories) |-> Join(cwd, DangerousDirectories[i])]
    \o << Join(cwd, GitHooks) >>
    \o << Join(cwd, GitConfig) >>
    \o [i \in 1..Len(DangerousFiles) |-> Join(HomeDir, DangerousFiles[i])]

(***************************************************************************)
(* bwrap arguments.  A flag is an item without paths; a mount item has the *)
(* option, the source on the host and the destination in the sandbox.      *)
(***************************************************************************)
F(o) == [op |-> o, src |-> Root, dst |-> Root]
M(o, s, d) == [op |-> o, src |-> s, dst |-> d]

Star == <<"*">>

\* faulty variant: any pattern containing a star counts as the wildcard
hasWildcardAllowedDomain_AnyStar(c) ==
    IF c.isNil THEN FALSE
    ELSE \E i \in 1..Len(c.allowedDomains) : Contains(c.allowedDomains[i], "*")

\* slices.Contains(cfg.Network.AllowedDomains, "*") with the nil check
hasWildcardAllowedDomain(c) == IF c.isNil THEN FALSE ELSE Contains(c.allowedDomains, Star)

\* normalized paths of the non-glob entries of a list, in list order
RECURSIVE NonGlobPaths(_)
NonGlobPaths(list) ==
    IF list = <<>> THEN <<>>
    ELSE LET n == NormalizePath(Head(list))
         IN  (IF ContainsGlobChars(n) THEN <<>> ELSE <<n.path>>) \o NonGlobPaths(Tail(list))

\* "--ro-bind p p" for each existing path outside /dev/ and /proc/ not bound yet;
\* st = [args, bound]
RECURSIVE RoBindNew(_, _)
RoBindNew(paths, st) ==
    IF paths = <<>> THEN st
    ELSE LET p == Head(paths)
         IN  IF fileExists(p) /\ ~HasTopPrefix(p, "dev") /\ ~HasTopPrefix(p, "proc")
                /\ p \notin st.bound
             THEN RoBindNew(Tail(paths),
                      [args |-> Append(st.args, M("--ro-bind", p, p)), bound |-> st.bound \cup {p}])
             ELSE RoBindNew(Tail(paths), st)

\* essential system paths in defaultDenyRead mode
RECURSIVE SystemBinds(_)
SystemBinds(paths) ==
    IF paths = <<>> THEN <<>>
    ELSE LET p == Head(paths)
         IN  (IF p \in {<<"dev">>, <<"proc">>, <<"tmp">>, <<"private", "tmp">>} THEN <<>>
              ELSE IF fileExists(p) THEN <<M("--ro-bind", p, p)>> ELSE <<>>)
             \o SystemBinds(Tail(paths))

\* linux.go 390-465: the read base of the mount plan
ReadBase ==
    IF ~cfg.isNil /\ cfg.defaultDenyRead
    THEN LET sys == SystemBinds(GetDefaultReadablePaths)
             r1 == RoBindNew(ExpandGlobPatterns(cfg.allowRead), [args |-> <<>>, bound |-> {}])
             r2 == RoBindNew(NonGlobPaths(cfg.allowRead), r1)
             x1 == RoBindNew(ExpandGlobPatterns(cfg.allowExecute), r2)
             x2 == RoBindNew(NonGlobPaths(cfg.allowExecute), x1)
             wslInterop == IF cfg.wslInterop = "unset" THEN env.features.IsWSL
                           ELSE cfg.wslInterop = "true"
             init == IF wslInterop /\ fileExists(<<"init">>) /\ <<"init">> \notin x2.bound
                     THEN <<M("--ro-bind", <<"init">>, <<"init">>)>> ELSE <<>>
         IN  sys \o x2.args \o init
    ELSE <<M("--ro-bind", Root, Root)>>

\* linux.go 467-474
SpecialMounts ==
    <<M("--dev-bind", <<"dev">>, <<"dev">>), M("--proc", Root, <<"proc">>), M("--tmpfs", Root, <<"tmp">>)>>

\* the walk from / to targetDir: --tmpfs at the first directory on another
\* device, --dir below it; st = [args, found]
RECURSIVE BoundaryWalk(_, _)
BoundaryWalk(dirs, st) ==
    IF dirs = <<>> THEN st
    ELSE LET d == Head(dirs)
         IN  IF ~st.found
             THEN IF ~sameDevice(d)
                  THEN BoundaryWalk(Tail(dirs), [args |-> Append(st.args, M("--tmpfs", Root, d)), found |-> TRUE])
                  ELSE BoundaryWalk(Tail(dirs), st)
             ELSE BoundaryWalk(Tail(dirs), [args |-> Append(st.args, M("--dir", Root, d)), found |-> TRUE])

ResolvConf == <<"etc", "resolv.conf">>

\* linux.go 476-527: /etc/resolv.conf pointing to another mount
ResolvConfMounts ==
    IF EvalSymlinksOK(ResolvConf) /\ EvalSymlinks(ResolvConf) # ResolvConf
    THEN LET target == EvalSymlinks(ResolvConf)
             underDefault == ~cfg.isNil /\ cfg.defaultDenyRead
                             /\ \E i \in 1..Len(GetDefaultReadablePaths) :
                                   IsAncestor(GetDefaultReadablePaths[i], target)
             targetUnderSpecialMount ==
                 HasTopPrefix(target, "dev") \/ HasTopPrefix(target, "proc")
                 \/ HasTopPrefix(target, "tmp") \/ underDefault
         IN  IF fileExists(target) /\ ~sameDevice(target) /\ ~targetUnderSpecialMount
             THEN LET w == BoundaryWalk(intermediaryDirs(Dir(target)), [args |-> <<>>, found |-> FALSE])
                  IN  w.args \o (IF w.found THEN <<M("--ro-bind", target, target)>> ELSE <<>>)
             ELSE <<>>
    ELSE <<>>


\* linux.go 529-554: the set behind the writablePaths map
WritablePaths ==
    {GetDefaultWritePaths[i] : i \in {j \in 1..Len(GetDefaultWritePaths) :
        LET p == GetDefaultWritePaths[j]
        IN  ~HasTopPrefix(p, "dev") /\ ~HasTopPrefix(p, "tmp")
            /\ ~(Len(p) >= 3 /\ p[1] = "private" /\ p[2] = "tmp")}}
    \cup (IF cfg.isNil THEN {}
          ELSE SeqToSet(ExpandGlobPatterns(cfg.allowWrite)) \cup SeqToSet(NonGlobPaths(cfg.allowWrite)))

\* linux.go 556-561: one "--bind p p" per existing writable path, in map order
RECURSIVE WritableBinds(_)
WritableBinds(order) ==
    IF order = <<>> THEN <<>>
    ELSE (IF fileExists(Head(order)) THEN <<M("--bind", Head(order), Head(order))>> ELSE <<>>)
         \o WritableBinds(Tail(order))

\* the inner loop of the cross-mount section; st = [args, bound, found]
RECURSIVE CrossWalk(_, _)
CrossWalk(dirs, st) ==
    IF dirs = <<>> THEN st
    ELSE LET d == Head(dirs)
         IN  IF d \in st.bound
             THEN CrossWalk(Tail(dirs), [st EXCEPT !.found = TRUE])
             ELSE IF ~st.found
             THEN IF ~sameDevice(d)
                  THEN CrossWalk(Tail(dirs), [args |-> Append(st.args, M("--tmpfs", Root, d)),
                                              bound |-> st.bound \cup {d}, found |-> TRUE])
                  ELSE CrossWalk(Tail(dirs), st)
             ELSE CrossWalk(Tail(dirs), [args |-> Append(st.args, M("--dir", Root, d)),
                                         bound |-> st.bound \cup {d}, found |-> TRUE])

\* the loop over crossMountPaths; st = [args, bound]
RECURSIVE CrossLoop(_, _, _)
CrossLoop(paths, writable, st) ==
    IF paths = <<>> THEN st
    ELSE LET p == Head(paths)
         IN  IF ~fileExists(p) \/ sameDevice(p) \/ p \in st.bound
             THEN CrossLoop(Tail(paths), writable, st)
             ELSE LET targetDir == IF isDirectory(p) THEN p ELSE Dir(p)
                      w == CrossWalk(intermediaryDirs(targetDir),
                                     [args |-> st.args, bound |-> st.bound \cup {p}, found |-> FALSE])
                      bind == IF ~w.found THEN <<>>
                              ELSE IF p \in writable THEN <<M("--bind", p, p)>>
                              ELSE <<M("--ro-bind", p, p)>>
                  IN  CrossLoop(Tail(paths), writable, [args |-> w.args \o bind, bound |-> w.bound])

\* linux.go 563-642
CrossMounts ==
    IF cfg.isNil \/ cfg.defaultDenyRead THEN <<>>
    ELSE LET crossMountPaths ==
                 NonGlobPaths(cfg.allowExecute) \o ExpandGlobPatterns(cfg.allowExecute)
                 \o NonGlobPaths(cfg.allowRead) \o ExpandGlobPatterns(cfg.allowRead)
                 \o NonGlobPaths(cfg.allowWrite) \o ExpandGlobPatterns(cfg.allowWrite)
             crossMountWritable ==
                 SeqToSet(NonGlobPaths(cfg.allowWrite)) \cup SeqToSet(ExpandGlobPatterns(cfg.allowWrite))
         IN  CrossLoop(crossMountPaths, crossMountWritable, [args |-> <<>>, bound |-> {}]).args

\* tmpfs over a directory, /dev/null over a file
Mask(p) == IF isDirectory(p) THEN M("--tmpfs", Root, p) ELSE M("--ro-bind", DevNull, p)

RECURSIVE MaskEach(_)
MaskEach(paths) ==
    IF paths = <<>> THEN <<>>
    ELSE (IF canMountOver(Head(paths)) THEN <<Mask(Head(paths))>> ELSE <<>>) \o MaskEach(Tail(paths))

\* linux.go 644-680: the denyReadPaths map and the masks
DenyReadPaths ==
    IF cfg.isNil THEN {}
    ELSE SeqToSet(ExpandGlobPatterns(cfg.denyRead)) \cup SeqToSet(NonGlobPaths(cfg.denyRead))

DenyReadMounts ==
    IF cfg.isNil THEN <<>>
    ELSE MaskEach(ExpandGlobPatterns(cfg.denyRead)) \o MaskEach(NonGlobPaths(cfg.denyRead))

\* linux.go 696-717: mandatory dangerous-path protection; st = [args, seen]
RECURSIVE MandatoryLoop(_, _)
MandatoryLoop(paths, st) ==
    IF paths = <<>> THEN st
    ELSE LET p == Head(paths)
         IN  IF p \in DenyReadPaths THEN MandatoryLoop(Tail(paths), st)
             ELSE IF p \notin st.seen /\ fileExists(p)
             THEN LET item == IF ~cfg.isNil /\ cfg.defaultDenyRead
                              THEN Mask(p) ELSE M("--ro-bind", p, p)
                  IN  MandatoryLoop(Tail(paths),
                          [args |-> Append(st.args, item), seen |-> st.seen \cup {p}])
             ELSE MandatoryLoop(Tail(paths), st)

\* linux.go 719-736: explicit denyWrite paths; st = [args, seen]
RECURSIVE DenyWriteLoop(_, _)
DenyWriteLoop(paths, st) ==
    IF paths = <<>> THEN st
    ELSE LET p == Head(paths)
         IN  IF fileExists(p) /\ p \notin st.seen
             THEN DenyWriteLoop(Tail(paths),
                      [args |-> Append(st.args, M("--ro-bind", p, p)), seen |-> st.seen \cup {p}])
             ELSE DenyWriteLoop(Tail(paths), st)

ProtectionMounts ==
    LET m == MandatoryLoop(getMandatoryDenyPaths(env.cwd), [args |-> <<>>, seen |-> {}])
    IN  IF cfg.isNil THEN m.args
        ELSE DenyWriteLoop(NonGlobPaths(cfg.denyWrite),
                 DenyWriteLoop(ExpandGlobPatterns(cfg.denyWrite), m)).args

\* linux.go 738-751: the bridge sockets and the reverse socket directory
BridgeBinds ==
    (IF bridge.isNil THEN <<>>
     ELSE <<M("--bind", bridge.HTTPSocketPath, bridge.HTTPSocketPath),
            M("--bind", bridge.SOCKSSocketPath, bridge.SOCKSSocketPath)>>)
    \o (IF ~reverseBridge.isNil /\ Len(reverseBridge.SocketPaths) > 0
        THEN LET tmpDir == Dir(reverseBridge.SocketPaths[1])
             IN  <<M("--bind", tmpDir, tmpDir)>>
        ELSE <<>>)


\* faulty variant: the PID namespace flag is written with the baseline flags
HeadArgs_PidFirst ==
    <<F("bwrap"), F("--new-session"), F("--die-with-parent"), F("--unshare-pid")>>
    \o (IF env.features.CanUnshareNet /\ ~hasWildcardAllowedDomain(cfg)
        THEN <<F("--unshare-net")>> ELSE <<>>)
    \o (IF opts.UseSeccomp /\ env.features.HasSeccomp /\ env.seccompFilterOK
        THEN <<F("--seccomp"), F("3")>> ELSE <<>>)

\* linux.go 352-388: baseline flags, network namespace, seccomp
HeadArgs ==
    <<F("bwrap"), F("--new-session"), F("--die-with-parent")>>
    \o (IF env.features.CanUnshareNet /\ ~hasWildcardAllowedDomain(cfg)
        THEN <<F("--unshare-net")>> ELSE <<>>)
    \o <<F("--unshare-pid")>>
    \o (IF opts.UseSeccomp /\ env.features.HasSeccomp /\ env.seccompFilterOK
        THEN <<F("--seccomp"), F("3")>> ELSE <<>>)

\* strings.Contains(filepath.Base(fenceExePath), "fence") on the executable names of the model
FenceLikeNames == {"fence", "fence-linux", "fence.test"}
executableIsFence == Len(env.exe) > 0 /\ env.exe[Len(env.exe)] \in FenceLikeNames

\* faulty variant: an executable under /tmp is accepted as the wrapper
useLandlockWrapper_AnyDirectory ==
    /\ opts.UseLandlock
    /\ env.features.CanUseLandlock
    /\ env.exe # Root
    /\ executableIsFence

\* linux.go 753-761
useLandlockWrapper ==
    /\ opts.UseLandlock
    /\ env.features.CanUseLandlock
    /\ env.exe # Root                       \* fenceExePath != ""
    /\ ~HasTopPrefix(env.exe, "tmp")        \* not in /tmp/
    /\ executableIsFence

\* one line (or block) of the inner script
L(k, n, v, w) == [kind |-> k, name |-> n, value |-> v, words |-> w]

RECURSIVE ReverseLines(_)
ReverseLines(i) ==
    IF i > Len(reverseBridge.Ports) THEN <<>>
    ELSE <<L("socat-reverse", "REV_PID", reverseBridge.SocketPaths[i], <<ToString(reverseBridge.Ports[i])>>)>>
         \o ReverseLines(i + 1)

\* linux.go 772-855: the script run by "<shell> -c" inside the sandbox
InnerScript ==
    (IF bridge.isNil THEN <<>>
     ELSE <<L("socat", "HTTP_PID", bridge.HTTPSocketPath, <<"3128">>),
            L("socat", "SOCKS_PID", bridge.SOCKSSocketPath, <<"1080">>),
            L("export", "HTTP_PROXY", Root, <<"http://127.0.0.1:3128">>),
            L("export", "HTTPS_PROXY", Root, <<"http://127.0.0.1:3128">>),
            L("export", "http_proxy", Root, <<"http://127.0.0.1:3128">>),
            L("export", "https_proxy", Root, <<"http://127.0.0.1:3128">>),
            L("export", "ALL_PROXY", Root, <<"socks5h://127.0.0.1:1080">>),
            L("export", "all_proxy", Root, <<"socks5h://127.0.0.1:1080">>),
            L("export", "NO_PROXY", Root, <<"localhost", "127.0.0.1">>),
            L("export", "no_proxy", Root, <<"localhost", "127.0.0.1">>),
            L("export", "FENCE_SANDBOX", Root, <<"1">>)>>)
    \o (IF ~reverseBridge.isNil /\ Len(reverseBridge.Ports) > 0 THEN ReverseLines(1) ELSE <<>>)
    \o <<L("trap", "cleanup", Root, <<"EXIT">>), L("sleep", "", Root, <<"0.1">>)>>
    \o (IF useLandlockWrapper
        THEN (IF cfg.isNil THEN <<>> ELSE <<L("export", "FENCE_CONFIG_JSON", Root, <<"json">>)>>)
             \o <<L("exec", "", env.exe,
                    <<"--landlock-apply">> \o (IF opts.Debug THEN <<"--debug">> ELSE <<>>)
                    \o <<"--", "bash", "-c", env.command>>)>>
        ELSE <<L("command", "", Root, <<env.command>>)>>)

\* the whole argument vector for one iteration order of the writablePaths map
BuildArgs(order) ==
    HeadArgs \o ReadBase \o SpecialMounts \o ResolvConfMounts \o WritableBinds(order)
    \o CrossMounts \o DenyReadMounts \o ProtectionMounts \o BridgeBinds
    \o <<F("--"), F("shellPath"), F("-c"), F("innerScript")>>

(***************************************************************************)
(* WrapCommandLinuxWithOptions (linux.go 321-890).                         *)
(***************************************************************************)
WrapCommandLinuxWithOptions ==
    /\ pc = "start"
    /\ aux.comp = "linux"
    /\ IF ~env.features.HasBwrap \/ ~env.hasBash
       THEN /\ pc' = "error"
            /\ bwrapArgs' = <<>>
            /\ innerScript' = <<>>
       ELSE /\ \E order \in Orderings({p \in WritablePaths : fileExists(p)}) :
                  bwrapArgs' = BuildArgs(order)
            /\ innerScript' = InnerScript
            /\ pc' = "done"
    /\ UNCHANGED <<env, cfg, bridge, reverseBridge, opts, aux>>


(***************************************************************************)
(* Inputs of the Linux builder: hosts, policies, bridges, options.         *)
(***************************************************************************)
CwdChoices == {<<"h", "w">>, <<"tmp", "w">>, <<"h">>}

RECURSIVE Ancestors(_)
Ancestors(p) == IF Len(p) = 0 THEN {Root} ELSE {p} \cup Ancestors(Dir(p))

HTTPSock == Join(TempDir, <<"fence-http-ID.sock">>)
SOCKSSock == Join(TempDir, <<"fence-socks-ID.sock">>)
ReverseSock(port) == Join(TempDir, <<"fence-rev-" \o ToString(port) \o "-ID.sock">>)

\* a host: the working directory with a small project in it, a home
\* directory, a second device mounted at /mnt/c and, on WSL, resolv.conf
\* pointing into /mnt/wsl
World(cwd, bashrc, git, wsl, withBridge) ==
    [dirs |-> Ancestors(cwd)
              \cup {Root, <<"tmp">>, <<"h">>, <<"h", ".npm">>, <<"h", ".npm", "_logs">>,
                    <<"usr">>, <<"etc">>, <<"dev">>, <<"proc">>, <<"mnt">>, <<"mnt", "c">>}
              \cup {Join(cwd, <<"data">>), Join(cwd, <<".vscode">>)}
              \cup (IF git THEN {Join(cwd, <<".git">>), Join(cwd, GitHooks)} ELSE {})
              \cup (IF wsl THEN {<<"mnt", "wsl">>} ELSE {}),
     files |-> {Join(cwd, <<"data", "f">>), Join(cwd, <<"rc">>), Join(HomeDir, <<".gitconfig">>),
                DevNull, <<"mnt", "c", "x">>}
               \cup (IF bashrc = "file" THEN {Join(cwd, <<".bashrc">>)} ELSE {})
               \cup (IF git THEN {Join(cwd, GitConfig)} ELSE {})
               \cup (IF wsl THEN {<<"mnt", "wsl", "resolv.conf">>, <<"init">>} ELSE {ResolvConf})
               \cup (IF withBridge THEN {HTTPSock, SOCKSSock} ELSE {}),
     links |-> (IF bashrc = "link" THEN {<<Join(cwd, <<".bashrc">>), Join(cwd, <<"rc">>)>>} ELSE {})
               \cup (IF wsl THEN {<<ResolvConf, <<"mnt", "wsl", "resolv.conf">>>>} ELSE {})]

Features(net, sec, ll, wsl, bw) ==
    [HasBwrap |-> bw, CanUnshareNet |-> net, HasSeccomp |-> sec, CanUseLandlock |-> ll, IsWSL |-> wsl]

NilBridge == [isNil |-> TRUE, HTTPSocketPath |-> Root, SOCKSSocketPath |-> Root]
SomeBridge == [isNil |-> FALSE, HTTPSocketPath |-> HTTPSock, SOCKSSocketPath |-> SOCKSSock]
NilReverse == [isNil |-> TRUE, Ports |-> <<>>, SocketPaths |-> <<>>]
SomeReverse(ports) ==
    [isNil |-> FALSE, Ports |-> ports, SocketPaths |-> [i \in 1..Len(ports) |-> ReverseSock(ports[i])]]

DefaultOpts == [UseLandlock |-> TRUE, UseSeccomp |-> TRUE, UseEBPF |-> TRUE, Monitor |-> FALSE, Debug |-> FALSE]

\* the default policy: all lists empty, flags off, tri-states unset
DefaultCfg ==
    [isNil |-> FALSE, allowPty |-> FALSE, allowedDomains |-> <<>>, deniedDomains |-> <<>>,
     allowUnixSockets |-> <<>>, allowAllUnixSockets |-> FALSE,
     allowLocalBinding |-> FALSE, allowLocalOutbound |-> "unset",
     defaultDenyRead |-> FALSE, wslInterop |-> "unset",
     allowRead |-> <<>>, allowExecute |-> <<>>, denyRead |-> <<>>,
     allowWrite |-> <<>>, denyWrite |-> <<>>, allowGitConfig |-> FALSE]

NilCfg == [DefaultCfg EXCEPT !.isNil = TRUE]

\* sequences over S of exactly n elements
RECURSIVE SeqN(_, _)
SeqN(S, n) == IF n = 0 THEN {<<>>} ELSE {Append(t, x) : t \in SeqN(S, n - 1), x \in S}

SeqUpTo(S, n) == UNION {SeqN(S, k) : k \in 0..n}

AllowWriteCands ==
    {Entry("rel", <<>>, FALSE), Entry("rel", <<".vscode">>, FALSE), Entry("abs", <<"mnt", "c">>, FALSE)}
DenyWriteCands ==
    {Entry("rel", <<"data">>, FALSE), Entry("tilde", <<".npm", "_logs">>, FALSE),
     Entry("rel", <<"data">>, TRUE)}
DenyReadCands ==
    {Entry("rel", <<"data">>, FALSE), Entry("rel", <<>>, FALSE), Entry("rel", <<>>, TRUE)}

\* the filesystem lists of a policy: at most MaxEntries entries in total
FsLists ==
    UNION {{[aw |-> a, dw |-> d, dr |-> r] :
                a \in SeqN(AllowWriteCands, l[1]), d \in SeqN(DenyWriteCands, l[2]),
                r \in SeqN(DenyReadCands, l[3])} :
           l \in {t \in (0..MaxEntries) \X (0..MaxEntries) \X (0..MaxEntries) :
                     t[1] + t[2] + t[3] <= MaxEntries}}

BridgeChoices == {<<NilBridge, NilReverse>>, <<SomeBridge, NilReverse>>, <<SomeBridge, SomeReverse(<<8080>>)>>}

DomainCands == {Star, <<"*", ".", "a">>, <<"a", "*", "b">>, <<"a", ".", "b">>}

ExeChoices == {<<"usr", "bin", "fence">>, <<"tmp", "fence.test">>, <<"usr", "bin", "myapp">>, Root}

\* hosts of the mount-plan inputs: <<.bashrc kind, git repository, WSL>>
WorldChoices == ({"file", "link"} \X BOOLEAN \X {FALSE}) \cup {<<"file", TRUE, TRUE>>}

\* mount-plan inputs: the policy's filesystem part varies over hosts
InitMountPlan ==
    \E cwd \in CwdChoices, w \in WorldChoices,
       ls \in FsLists, ddr \in BOOLEAN, agc \in BOOLEAN, br \in BridgeChoices :
        /\ env = [cwd |-> cwd, fs |-> World(cwd, w[1], w[2], w[3], ~br[1].isNil),
                  features |-> Features(TRUE, TRUE, TRUE, w[3], TRUE),
                  hasBash |-> TRUE, seccompFilterOK |-> TRUE,
                  exe |-> <<"usr", "bin", "fence">>, command |-> "echo hi"]
        /\ cfg = [DefaultCfg EXCEPT !.allowWrite = ls.aw, !.denyWrite = ls.dw, !.denyRead = ls.dr,
                                    !.defaultDenyRead = ddr, !.allowGitConfig = agc]
        /\ bridge = br[1]
        /\ reverseBridge = br[2]
        /\ opts = DefaultOpts

\* seccomp and Landlock circumstances of the launcher inputs:
\* <<HasSeccomp, filter generated, UseSeccomp, CanUseLandlock, UseLandlock, executable, Debug>>
LauncherChoices ==
    (BOOLEAN \X BOOLEAN \X BOOLEAN \X {TRUE} \X {TRUE} \X {<<"usr", "bin", "fence">>} \X {FALSE})
    \cup ({TRUE} \X {TRUE} \X {TRUE} \X BOOLEAN \X BOOLEAN \X ExeChoices \X BOOLEAN)

\* launcher inputs: network policy, feature probe, options and executable vary
InitLauncher ==
    \E doms \in SeqUpTo(DomainCands, MaxDomains), nil \in BOOLEAN, net \in BOOLEAN,
       v \in LauncherChoices :
        /\ env = [cwd |-> <<"h", "w">>, fs |-> World(<<"h", "w">>, "file", TRUE, FALSE, TRUE),
                  features |-> Features(net, v[1], v[4], FALSE, TRUE),
                  hasBash |-> TRUE, seccompFilterOK |-> v[2],
                  exe |-> v[6], command |-> "echo hi"]
        /\ cfg = IF nil THEN NilCfg ELSE [DefaultCfg EXCEPT !.allowedDomains = doms]
        /\ (nil => doms = <<>>)
        /\ bridge = SomeBridge
        /\ reverseBridge = NilReverse
        /\ opts = [DefaultOpts EXCEPT !.UseLandlock = v[5], !.UseSeccomp = v[3], !.Debug = v[7]]

\* hosts without bwrap or without bash
InitNoTools ==
    \E tools \in {<<FALSE, TRUE>>, <<TRUE, FALSE>>} :
        /\ env = [cwd |-> <<"h", "w">>, fs |-> World(<<"h", "w">>, "file", TRUE, FALSE, FALSE),
                  features |-> Features(TRUE, TRUE, TRUE, FALSE, tools[1]),
                  hasBash |-> tools[2], seccompFilterOK |-> TRUE,
                  exe |-> <<"usr", "bin", "fence">>, command |-> "echo hi"]
        /\ cfg = DefaultCfg
        /\ bridge = NilBridge
        /\ reverseBridge = NilReverse
        /\ opts = DefaultOpts

InitLinux ==
    /\ InitMountPlan \/ InitLauncher \/ InitNoTools
    /\ bwrapArgs = <<>>
    /\ innerScript = <<>>
    /\ pc = "start"
    /\ aux = [comp |-> "linux"]

NextLinux == WrapCommandLinuxWithOptions

SpecLinux == InitLinux /\ [][NextLinux]_vars

\* read-plan inputs: allow_read and allow_execute vary, with and without default_deny_read
MaxReads == 2       \* entries over allow_read and allow_execute together

AllowReadCands ==
    {Entry("rel", <<>>, FALSE), Entry("abs", <<"mnt", "c">>, FALSE), Entry("abs", <<"mnt", "c", "x">>, FALSE),
     Entry("abs", <<"mnt">>, TRUE), Entry("abs", <<"usr">>, FALSE), Entry("abs", <<"nowhere">>, FALSE)}

ReadLists ==
    UNION {{[ar |-> r, ax |-> x] : r \in SeqN(AllowReadCands, l[1]), x \in SeqN(AllowReadCands, l[2])} :
           l \in {t \in (0..MaxReads) \X (0..MaxReads) : t[1] + t[2] <= MaxReads}}

InitReadPlan ==
    \E cwd \in {<<"h", "w">>, <<"tmp", "w">>}, ls \in ReadLists, ddr \in BOOLEAN,
       aw \in {<<>>, <<Entry("abs", <<"mnt", "c">>, FALSE)>>},
       dr \in {<<>>, <<Entry("rel", <<>>, FALSE)>>} :
        /\ env = [cwd |-> cwd, fs |-> World(cwd, "file", TRUE, FALSE, FALSE),
                  features |-> Features(TRUE, TRUE, TRUE, FALSE, TRUE),
                  hasBash |-> TRUE, seccompFilterOK |-> TRUE,
                  exe |-> <<"usr", "bin", "fence">>, command |-> "echo hi"]
        /\ cfg = [DefaultCfg EXCEPT !.allowRead = ls.ar, !.allowExecute = ls.ax, !.allowWrite = aw,
                                    !.denyRead = dr, !.defaultDenyRead = ddr]
        /\ bridge = NilBridge
        /\ reverseBridge = NilReverse
        /\ opts = DefaultOpts

InitReads ==
    /\ InitReadPlan
    /\ bwrapArgs = <<>>
    /\ innerScript = <<>>
    /\ pc = "start"
    /\ aux = [comp |-> "linux"]

SpecReads == InitReads /\ [][NextLinux]_vars



(***************************************************************************)
(* The Linux builder at rest, for the specifications of other components.  *)
(***************************************************************************)
IdleLinux ==
    /\ env = [cwd |-> Root, fs |-> World(Root, "file", FALSE, FALSE, FALSE),
              features |-> Features(FALSE, FALSE, FALSE, FALSE, FALSE),
              hasBash |-> FALSE, seccompFilterOK |-> FALSE, exe |-> Root, command |-> ""]
    /\ bridge = NilBridge
    /\ reverseBridge = NilReverse
    /\ opts = DefaultOpts
    /\ bwrapArgs = <<>>
    /\ innerScript = <<>>
    /\ pc = "idle"

linuxVars == <<env, bridge, reverseBridge, opts, bwrapArgs, innerScript, pc>>

(***************************************************************************)
(* macOS: the sandbox parameters derived from the policy and the network   *)
(* section of the Seatbelt profile.                                        *)
(***************************************************************************)
\* faulty variant: the restriction is dropped when there is nothing to filter
buildMacOSParams_NoEmptyCase(c) ==
    LET hasWildcardAllow == \E i \in 1..Len(c.allowedDomains) : c.allowedDomains[i] = Star
        needsNetwork == Len(c.allowedDomains) > 0 \/ Len(c.deniedDomains) > 0
    IN  [NeedsNetworkRestriction |-> ~hasWildcardAllow /\ needsNetwork,
         HTTPProxyPort |-> 8080, SOCKSProxyPort |-> 1080,
         AllowUnixSockets |-> c.allowUnixSockets, AllowAllUnixSockets |-> c.allowAllUnixSockets,
         AllowLocalBinding |-> c.allowLocalBinding,
         AllowLocalOutbound |-> IF c.allowLocalOutbound = "unset" THEN c.allowLocalBinding
                                ELSE c.allowLocalOutbound = "true",
         AllowPty |-> c.allowPty, AllowGitConfig |-> c.allowGitConfig]

\* buildMacOSParamsForTest, the replica of the logic of WrapCommandMacOS
buildMacOSParams(c) ==
    LET hasWildcardAllow == \E i \in 1..Len(c.allowedDomains) : c.allowedDomains[i] = Star
        needsNetwork == Len(c.allowedDomains) > 0 \/ Len(c.deniedDomains) > 0
    IN  [NeedsNetworkRestriction |-> ~hasWildcardAllow /\ (needsNetwork \/ Len(c.allowedDomains) = 0),
         HTTPProxyPort |-> 8080, SOCKSProxyPort |-> 1080,
         AllowUnixSockets |-> c.allowUnixSockets, AllowAllUnixSockets |-> c.allowAllUnixSockets,
         AllowLocalBinding |-> c.allowLocalBinding,
         AllowLocalOutbound |-> IF c.allowLocalOutbound = "unset" THEN c.allowLocalBinding
                                ELSE c.allowLocalOutbound = "true",
         AllowPty |-> c.allowPty, AllowGitConfig |-> c.allowGitConfig]

BlanketNetworkRule == "(allow network*)"

\* GenerateSandboxProfile, network section: the rules of the profile text
GenerateSandboxProfile(params) ==
    <<"(version 1)", "(deny default)", "; Network">>
    \o (IF ~params.NeedsNetworkRestriction THEN <<BlanketNetworkRule>>
        ELSE (IF params.AllowLocalBinding
              THEN <<"(allow network-bind (local ip \"localhost:*\"))",
                     "(allow network-inbound (local ip \"localhost:*\"))">>
              ELSE <<>>)
             \o (IF params.AllowLocalOutbound
                 THEN <<"(allow network-outbound (remote ip \"localhost:*\"))">> ELSE <<>>)
             \o (IF params.AllowAllUnixSockets
                 THEN <<"(allow network* (subpath \"/\"))">> ELSE <<>>)
             \o <<"(allow network-outbound (remote ip \"localhost:HTTP\"))",
                  "(allow network-outbound (remote ip \"localhost:SOCKS\"))">>)
    \o (IF params.AllowPty THEN <<"(allow pseudo-tty)">> ELSE <<>>)

\* strings.Contains(profile, "(allow network*)")
ProfileHasBlanketAllow(profile) == Contains(profile, BlanketNetworkRule)

InitMacOS ==
    /\ IdleLinux
    /\ \E ad \in SeqUpTo(DomainCands, MaxDomains), dd \in SeqUpTo(DomainCands, MaxDomains),
          lb \in BOOLEAN, lo \in {"unset", "true", "false"} :
           cfg = [DefaultCfg EXCEPT !.allowedDomains = ad, !.deniedDomains = dd,
                                    !.allowLocalBinding = lb, !.allowLocalOutbound = lo]
    /\ aux = [comp |-> "macos", stage |-> "start"]

WrapCommandMacOS ==
    /\ aux.comp = "macos"
    /\ aux.stage = "start"
    /\ LET params == buildMacOSParams(cfg)
       IN  aux' = [comp |-> "macos", stage |-> "done", params |-> params,
                   profile |-> GenerateSandboxProfile(params)]
    /\ UNCHANGED <<cfg, linuxVars>>

NextMacOS == WrapCommandMacOS

SpecMacOS == InitMacOS /\ [][NextMacOS]_vars

(***************************************************************************)
(* The HTTP(S) CONNECT proxy: host matcher, domain filter and the handler  *)
(* of one connection.  Hosts and patterns are sequences of characters.     *)
(***************************************************************************)
MaxConns == 2       \* connections the proxy serves in one run

\* case folding of one character
ToLower(c) == IF c = "A" THEN "a" ELSE IF c = "B" THEN "b" ELSE IF c = "X" THEN "x" ELSE c

\* match(pattern, host): case-insensitive, "*" stands for one or more characters
RECURSIVE match(_, _)
match(pattern, host) ==
    IF pattern = <<>> THEN host = <<>>
    ELSE IF Head(pattern) = "*"
         THEN \E k \in 1..Len(host) : match(Tail(pattern), SubSeq(host, k + 1, Len(host)))
         ELSE /\ host # <<>>
              /\ ToLower(Head(host)) = ToLower(Head(pattern))
              /\ match(Tail(pattern), Tail(host))

matchesAny(patterns, host) == \E i \in 1..Len(patterns) : match(patterns[i], host)

\* faulty variant: an allowed match is honoured before the denied list is consulted
domainAllowed_AllowFirst(c, host) ==
    matchesAny(c.allowedDomains, host)

\* the domain filter: denied domains are checked first, then a host passes
\* only by matching an allowed pattern (empty lists block everything)
domainAllowed(c, host) ==
    IF matchesAny(c.deniedDomains, host) THEN FALSE
    ELSE matchesAny(c.allowedDomains, host)

\* the CONNECT targets of the clients; the empty host is a malformed request
RequestHosts == {<<"a", ".", "b">>, <<"X", ".", "A">>, <<>>}

NoConn == [stage |-> "none", host |-> <<>>, status |-> 0]

\* the network policies the proxy runs under
NetworkPolicies ==
    {l \in [ad : SeqUpTo(DomainCands, MaxDomains), dd : SeqUpTo(DomainCands, MaxDomains)] :
        Len(l.ad) + Len(l.dd) <= MaxDomains}

InitProxy ==
    /\ IdleLinux
    /\ \E l \in NetworkPolicies :
           cfg = [DefaultCfg EXCEPT !.allowedDomains = l.ad, !.deniedDomains = l.dd]
    /\ aux = [comp |-> "proxy", listening |-> TRUE,
              conns |-> [i \in 1..MaxConns |-> NoConn],
              violations |-> <<>>, dials |-> {}]

\* a client connects and sends its CONNECT line
ProxyAccept(id, h) ==
    /\ aux.comp = "proxy"
    /\ aux.listening
    /\ aux.conns[id].stage = "none"
    /\ \A j \in 1..(id - 1) : aux.conns[j].stage # "none"
    /\ aux' = [aux EXCEPT !.conns[id] = [stage |-> "pending", host |-> h, status |-> 0]]
    /\ UNCHANGED <<cfg, linuxVars>>

\* the handler of one connection: parse, decide, answer; the decision and
\* the opening of the tunnel are one step
HandleConnect(id) ==
    /\ aux.comp = "proxy"
    /\ aux.conns[id].stage = "pending"
    /\ LET h == aux.conns[id].host
           answered(s) == [stage |-> "answered", host |-> h, status |-> s]
       IN  IF h = <<>>
           THEN aux' = [aux EXCEPT !.conns[id] = answered(400)]
           ELSE IF ~domainAllowed(cfg, h)
           THEN aux' = [aux EXCEPT !.conns[id] = answered(403),
                                   !.violations = Append(@, [tag |-> "http", host |-> h])]
           ELSE \E ok \in BOOLEAN :
                    aux' = [aux EXCEPT !.conns[id] = answered(IF ok THEN 200 ELSE 502),
                                       !.dials = @ \cup {[conn |-> id, host |-> h, ok |-> ok]}]
    /\ UNCHANGED <<cfg, linuxVars>>

\* either side of an established tunnel closes
CloseTunnel(id) ==
    /\ aux.comp = "proxy"
    /\ aux.conns[id].stage = "answered"
    /\ aux.conns[id].status = 200
    /\ aux' = [aux EXCEPT !.conns[id].stage = "closed"]
    /\ UNCHANGED <<cfg, linuxVars>>

\* a listener error: the proxy stops accepting
ListenerError ==
    /\ aux.comp = "proxy"
    /\ aux.listening
    /\ aux' = [aux EXCEPT !.listening = FALSE]
    /\ UNCHANGED <<cfg, linuxVars>>

NextProxy ==
    \/ \E id \in 1..MaxConns, h \in RequestHosts : ProxyAccept(id, h)
    \/ \E id \in 1..MaxConns : HandleConnect(id)
    \/ \E id \in 1..MaxConns : CloseTunnel(id)
    \/ ListenerError

SpecProxy == InitProxy /\ [][NextProxy]_vars

(***************************************************************************)
(* The command analyzer and the preflight of wrap_command.  A command is a *)
(* sequence of items: words, separators, and quoted arguments holding the  *)
(* command they quote.  The text of a word is a sequence of characters.    *)
(***************************************************************************)
MaxPatterns == 2    \* entries over command.deny and command.allow together
MaxParts == 2       \* simple commands of a chain
MaxDepth == 2       \* nested shell invocations

Word(t) == [kind |-> "word", text |-> t, body |-> <<>>]
Op(t) == [kind |-> "op", text |-> t, body |-> <<>>]
Quoted(b) == [kind |-> "quoted", text |-> <<>>, body |-> b]

\* separators of simple commands
Separators == {<<";">>, <<"&", "&">>, <<"|", "|">>, <<"|">>}

\* shells whose -c argument is inspected
ShellNames ==
    {<<"s", "h">>, <<"b", "a", "s", "h">>, <<"z", "s", "h">>, <<"k", "s", "h">>,
     <<"d", "a", "s", "h">>, <<"f", "i", "s", "h">>}

\* -c, -lc and the like: an option word whose last letter is c
isCommandFlag(it) ==
    it.kind = "word" /\ Len(it.text) >= 2 /\ it.text[1] = "-" /\ it.text[Len(it.text)] = "c"

\* the built-in dangerous-command catalog (an excerpt)
DefaultDeniedCommands == << <<"h", "a", "l", "t">>, <<"r", "e", "b", "o", "o", "t">> >>

\* the text of a command: items joined by blanks, quoted arguments in quotes
RECURSIVE Render(_)
Render(items) ==
    IF items = <<>> THEN <<>>
    ELSE LET it == Head(items)
             t == IF it.kind = "quoted" THEN <<"\"">> \o Render(it.body) \o <<"\"">> ELSE it.text
         IN  IF Len(items) = 1 THEN t ELSE t \o <<" ">> \o Render(Tail(items))

\* split a command at its separators into simple commands
RECURSIVE SplitSimple(_, _)
SplitSimple(items, cur) ==
    IF items = <<>> THEN (IF cur = <<>> THEN <<>> ELSE <<cur>>)
    ELSE IF Head(items).kind = "op"
         THEN (IF cur = <<>> THEN <<>> ELSE <<cur>>) \o SplitSimple(Tail(items), <<>>)
         ELSE SplitSimple(Tail(items), Append(cur, Head(items)))

\* a prefix pattern matches a command text at a word boundary
matchesPrefix(pattern, text) ==
    /\ Len(pattern) > 0
    /\ Len(pattern) <= Len(text)
    /\ SubSeq(text, 1, Len(pattern)) = pattern
    /\ (Len(text) = Len(pattern) \/ text[Len(pattern) + 1] = " ")

\* length of the longest pattern of the list that matches (0 if none)
longestMatch(patterns, text) ==
    LET lens == {Len(patterns[i]) : i \in {j \in 1..Len(patterns) : matchesPrefix(patterns[j], text)}}
    IN  IF lens = {} THEN 0 ELSE CHOOSE n \in lens : \A k \in lens : k <= n

effectiveDeny(policy) ==
    policy.deny \o (IF policy.useDefaults = "false" THEN <<>> ELSE DefaultDeniedCommands)

\* faulty variant: any allow match overrides a deny match, whatever the lengths
simpleDenied_AnyAllowWins(policy, text) ==
    /\ longestMatch(effectiveDeny(policy), text) > 0
    /\ longestMatch(policy.allow, text) = 0

\* a deny hit wins unless an allow prefix also matches; the longer match
\* wins and a tie goes to allow
simpleDenied(policy, text) ==
    LET d == longestMatch(effectiveDeny(policy), text)
        a == longestMatch(policy.allow, text)
    IN  d > 0 /\ a < d

\* the quoted argument of a shell invocation with -c, or <<>>
RECURSIVE shellArgument(_)
shellArgument(items) ==
    IF Len(items) < 2 THEN <<>>
    ELSE IF isCommandFlag(items[1]) /\ items[2].kind = "quoted" THEN items[2].body
         ELSE shellArgument(Tail(items))

isShellInvocation(sc) == sc[1].kind = "word" /\ sc[1].text \in ShellNames

NoHit == [denied |-> FALSE, text |-> <<>>]

\* analyze: the first denied simple command, looking into shell invocations
RECURSIVE analyzeSimples(_, _)
analyze(policy, items) == analyzeSimples(policy, SplitSimple(items, <<>>))
analyzeSimples(policy, simples) ==
    IF simples = <<>> THEN NoHit
    ELSE LET sc == Head(simples)
             text == Render(sc)
             inner == IF isShellInvocation(sc) /\ shellArgument(Tail(sc)) # <<>>
                      THEN analyze(policy, shellArgument(Tail(sc))) ELSE NoHit
         IN  IF simpleDenied(policy, text) THEN [denied |-> TRUE, text |-> text]
             ELSE IF inner.denied THEN inner
             ELSE analyzeSimples(policy, Tail(simples))

\* simple commands of the inputs: rm, rm x, rmx, halt
LeafCommands ==
    {<<Word(<<"r", "m">>)>>, <<Word(<<"r", "m">>), Word(<<"x">>)>>,
     <<Word(<<"r", "m", "x">>)>>, <<Word(<<"h", "a", "l", "t">>)>>}

RECURSIVE Chain(_, _)
Chain(leaves, op) ==
    IF Len(leaves) = 1 THEN leaves[1]
    ELSE leaves[1] \o <<Op(op)>> \o Chain(Tail(leaves), op)

Chains == {Chain(ls, op) : ls \in (SeqUpTo(LeafCommands, MaxParts) \ {<<>>}), op \in Separators}

\* d shell invocations around a command: sh -c "bash -lc "...""
RECURSIVE Nest(_, _)
Nest(d, body) ==
    IF d = 0 THEN body
    ELSE IF d % 2 = 1
         THEN <<Word(<<"s", "h">>), Word(<<"-", "c">>), Quoted(Nest(d - 1, body))>>
         ELSE <<Word(<<"b", "a", "s", "h">>), Word(<<"-", "l", "c">>), Quoted(Nest(d - 1, body))>>

CommandInputs ==
    {Nest(d, c) : d \in 0..MaxDepth, c \in Chains}
    \cup {<<Word(<<"r", "m", "x">>), Op(<<"&", "&">>)>> \o Nest(d, c) : d \in 1..MaxDepth, c \in LeafCommands}

PatternCands == {<<"r", "m">>, <<"r", "m", " ", "x">>}

CommandPolicies ==
    {l \in [deny : SeqUpTo(PatternCands, MaxPatterns), allow : SeqUpTo(PatternCands, MaxPatterns),
            useDefaults : {"unset", "true", "false"}] :
        Len(l.deny) + Len(l.allow) <= MaxPatterns}

InitCmd ==
    /\ IdleLinux
    /\ cfg = DefaultCfg
    /\ \E c \in CommandInputs, pol \in CommandPolicies :
           aux = [comp |-> "cmd", stage |-> "start", command |-> c, policy |-> pol,
                  err |-> <<>>, blocked |-> <<>>, wrapped |-> FALSE, spawned |-> FALSE]

\* wrap_command: the preflight, then the confined invocation
WrapCommand ==
    /\ aux.comp = "cmd"
    /\ aux.stage = "start"
    /\ LET v == analyze(aux.policy, aux.command)
       IN  IF v.denied
           THEN aux' = [aux EXCEPT !.stage = "error", !.err = "command blocked by policy: ",
                                   !.blocked = v.text]
           ELSE aux' = [aux EXCEPT !.stage = "wrapped", !.wrapped = TRUE]
    /\ UNCHANGED <<cfg, linuxVars>>

\* the caller runs the wrapped command it was handed
ExecuteWrapped ==
    /\ aux.comp = "cmd"
    /\ aux.stage = "wrapped"
    /\ aux.wrapped
    /\ aux' = [aux EXCEPT !.stage = "running", !.spawned = TRUE]
    /\ UNCHANGED <<cfg, linuxVars>>

NextCmd == WrapCommand \/ ExecuteWrapped

SpecCmd == InitCmd /\ [][NextCmd]_vars

(***************************************************************************)
(* The SSH inspector: the host check at connect time and the command check *)
(* of the remote command, in the documented evaluation order.              *)
(***************************************************************************)
matchesAnyPrefix(patterns, command) ==
    \E i \in 1..Len(patterns) : matchesPrefix(patterns[i], command)

\* faulty variant: allow_all_commands is consulted before the denied commands
sshCommandVerdict_AllowAllFirst(ssh, global, command) ==
    IF command = <<>> THEN [verdict |-> "allow", rule |-> 3]
    ELSE IF ssh.allowAllCommands THEN [verdict |-> "allow", rule |-> 6]
    ELSE IF matchesAnyPrefix(ssh.deniedCommands, command) THEN [verdict |-> "deny", rule |-> 4]
    ELSE IF ssh.inheritDeny /\ matchesAnyPrefix(effectiveDeny(global), command)
    THEN [verdict |-> "deny", rule |-> 5]
    ELSE IF matchesAnyPrefix(ssh.allowedCommands, command) THEN [verdict |-> "allow", rule |-> 7]
    ELSE [verdict |-> "deny", rule |-> 8]

\* steps 3-8 of the evaluation order
sshCommandVerdict(ssh, global, command) ==
    IF command = <<>> THEN [verdict |-> "allow", rule |-> 3]
    ELSE IF matchesAnyPrefix(ssh.deniedCommands, command) THEN [verdict |-> "deny", rule |-> 4]
    ELSE IF ssh.inheritDeny /\ matchesAnyPrefix(effectiveDeny(global), command)
    THEN [verdict |-> "deny", rule |-> 5]
    ELSE IF ssh.allowAllCommands THEN [verdict |-> "allow", rule |-> 6]
    ELSE IF matchesAnyPrefix(ssh.allowedCommands, command) THEN [verdict |-> "allow", rule |-> 7]
    ELSE [verdict |-> "deny", rule |-> 8]

\* steps 1-2 of the evaluation order
sshHostVerdict(ssh, host) ==
    IF matchesAny(ssh.deniedHosts, host) THEN [verdict |-> "deny", rule |-> 1]
    ELSE IF ~matchesAny(ssh.allowedHosts, host) THEN [verdict |-> "deny", rule |-> 2]
    ELSE [verdict |-> "continue", rule |-> 0]

SSHPolicy(ah, dh, ac, dc, all, inh) ==
    [allowedHosts |-> ah, deniedHosts |-> dh, allowedCommands |-> ac,
     deniedCommands |-> dc, allowAllCommands |-> all, inheritDeny |-> inh]

GlobalCommand(deny, ud) == [deny |-> deny, allow |-> <<>>, useDefaults |-> ud]

\* remote commands of the inputs; <<>> is an interactive session
RemoteCommands == {<<>>, <<"r", "m">>, <<"r", "m", " ", "x">>, <<"h", "a", "l", "t">>}

SSHHosts == {<<"a", ".", "b">>, <<"X", ".", "A">>}

SSHStart(host, command, ssh, global) ==
    aux = [comp |-> "ssh", stage |-> "start", host |-> host, command |-> command,
           ssh |-> ssh, global |-> global, verdict |-> "none", rule |-> 0, log |-> <<>>]

\* inputs that vary the host lists
InitSSHHosts ==
    \E host \in SSHHosts, l \in NetworkPolicies, command \in {<<>>, <<"r", "m">>},
       ac \in {<<>>, << <<"r", "m">> >>} :
        SSHStart(host, command, SSHPolicy(l.ad, l.dd, ac, <<>>, FALSE, FALSE),
                 GlobalCommand(<<>>, "false"))

\* inputs that vary the command lists and switches
InitSSHCommands ==
    \E command \in RemoteCommands, l \in CommandPolicies, all \in BOOLEAN, inh \in BOOLEAN,
       gd \in {<<>>, << <<"r", "m">> >>} :
        SSHStart(<<"a", ".", "b">>, command,
                 SSHPolicy(<<Star>>, <<>>, l.allow, l.deny, all, inh),
                 GlobalCommand(gd, l.useDefaults))

InitSSH ==
    /\ IdleLinux
    /\ cfg = DefaultCfg
    /\ (InitSSHHosts \/ InitSSHCommands)

\* layer a: the host check when the client connects
SSHHostCheck ==
    /\ aux.comp = "ssh"
    /\ aux.stage = "start"
    /\ LET v == sshHostVerdict(aux.ssh, aux.host)
       IN  IF v.verdict = "deny"
           THEN aux' = [aux EXCEPT !.stage = "refused", !.verdict = "deny", !.rule = v.rule,
                                   !.log = Append(@, "[ssh] host denied")]
           ELSE aux' = [aux EXCEPT !.stage = "connected"]
    /\ UNCHANGED <<cfg, linuxVars>>

\* layer b: the check of the remote command of an accepted connection
SSHCommandCheck ==
    /\ aux.comp = "ssh"
    /\ aux.stage = "connected"
    /\ LET v == sshCommandVerdict(aux.ssh, aux.global, aux.command)
       IN  aux' = [aux EXCEPT !.stage = "decided", !.verdict = v.verdict, !.rule = v.rule]
    /\ UNCHANGED <<cfg, linuxVars>>

NextSSH == SSHHostCheck \/ SSHCommandCheck

SpecSSH == InitSSH /\ [][NextSSH]_vars

(***************************************************************************)
(* Policies and the merge algebra: merge(base, override).                  *)
(***************************************************************************)
SeqFields == {"allowedDomains", "denyWrite", "commandDeny"}
BoolFields == {"allowPty", "allowGitConfig"}
TriFields == {"allowLocalOutbound", "useDefaults"}
IntFields == {"httpProxyPort"}

\* the default policy: all lists empty, nothing set
DefaultPolicy ==
    [extends |-> "", allowPty |-> FALSE, allowGitConfig |-> FALSE,
     allowLocalOutbound |-> "unset", useDefaults |-> "unset", httpProxyPort |-> 0,
     allowedDomains |-> <<>>, denyWrite |-> <<>>, commandDeny |-> <<>>]

\* drop the entries already seen, keeping the first occurrence
RECURSIVE Dedup(_, _)
Dedup(s, seen) ==
    IF s = <<>> THEN <<>>
    ELSE IF Head(s) \in seen THEN Dedup(Tail(s), seen)
         ELSE <<Head(s)>> \o Dedup(Tail(s), seen \cup {Head(s)})

\* sequences: base entries then override entries, deduplicated
mergeStrings(base, override) == Dedup(base \o override, {})

\* booleans: logical OR
mergeBool(base, override) == base \/ override

\* faulty variant: the override tri-state replaces the base even when it is unset
mergeTri_AlwaysOverride(base, override) == override

\* tri-states: the override wins if set
mergeTri(base, override) == IF override # "unset" THEN override ELSE base

\* integers: the override wins if non-zero
mergeInt(base, override) == IF override # 0 THEN override ELSE base

merge(base, override) ==
    [extends |-> "",
     allowPty |-> mergeBool(base.allowPty, override.allowPty),
     allowGitConfig |-> mergeBool(base.allowGitConfig, override.allowGitConfig),
     allowLocalOutbound |-> mergeTri(base.allowLocalOutbound, override.allowLocalOutbound),
     useDefaults |-> mergeTri(base.useDefaults, override.useDefaults),
     httpProxyPort |-> mergeInt(base.httpProxyPort, override.httpProxyPort),
     allowedDomains |-> mergeStrings(base.allowedDomains, override.allowedDomains),
     denyWrite |-> mergeStrings(base.denyWrite, override.denyWrite),
     commandDeny |-> mergeStrings(base.commandDeny, override.commandDeny)]

\* the lists of a policy, MaxEntries entries in all
PolicyLists ==
    {l \in [allowedDomains : SeqUpTo({<<"a", ".", "b">>, Star}, MaxEntries),
            denyWrite : SeqUpTo({Entry("rel", <<"data">>, FALSE), Entry("tilde", <<".npm", "_logs">>, FALSE)},
                                MaxEntries),
            commandDeny : SeqUpTo(PatternCands, MaxEntries)] :
        Len(l.allowedDomains) + Len(l.denyWrite) + Len(l.commandDeny) <= MaxEntries}

WithLists(p, l) ==
    [p EXCEPT !.allowedDomains = l.allowedDomains, !.denyWrite = l.denyWrite,
              !.commandDeny = l.commandDeny]

Policies ==
    {WithLists([DefaultPolicy EXCEPT !.extends = x, !.allowPty = b[1], !.allowGitConfig = b[2],
                                     !.allowLocalOutbound = t[1], !.useDefaults = t[2],
                                     !.httpProxyPort = n], l) :
        x \in {"", "code"}, b \in BOOLEAN \X BOOLEAN,
        t \in {"unset", "true", "false"} \X {"unset", "true", "false"},
        n \in {0, 8080}, l \in PolicyLists}

InitMerge ==
    /\ IdleLinux
    /\ cfg = DefaultCfg
    /\ \/ \E p \in Policies :
              aux = [comp |-> "merge", stage |-> "start", base |-> p, override |-> DefaultPolicy,
                     result |-> DefaultPolicy]
       \/ \E p \in Policies :
              aux = [comp |-> "merge", stage |-> "start", base |-> DefaultPolicy, override |-> p,
                     result |-> DefaultPolicy]
       \/ \E a \in PolicyLists, b \in PolicyLists, t \in {"unset", "true"} \X {"unset", "false"} :
              aux = [comp |-> "merge", stage |-> "start",
                     base |-> WithLists([DefaultPolicy EXCEPT !.useDefaults = t[1]], a),
                     override |-> WithLists([DefaultPolicy EXCEPT !.useDefaults = t[2]], b),
                     result |-> DefaultPolicy]

\* the override policy is merged over the base
Merge ==
    /\ aux.comp = "merge"
    /\ aux.stage = "start"
    /\ aux' = [aux EXCEPT !.stage = "done", !.result = merge(aux.base, aux.override)]
    /\ UNCHANGED <<cfg, linuxVars>>

NextMerge == Merge

SpecMerge == InitMerge /\ [][NextMerge]_vars

(***************************************************************************)
(* GetMandatoryDenyPatterns (dangerous.go).  A pattern is either a path    *)
(* under the cwd or a glob: "**" is a component of a floating pattern.     *)
(***************************************************************************)
MaxCwdDepth == 3    \* components of the working directory

PathPattern(p) == [glob |-> FALSE, path |-> p]
GlobPattern(p) == [glob |-> TRUE, path |-> p]

\* faulty variant: .git/config is listed whatever the flag says
GetMandatoryDenyPatterns_IgnoresFlag(cwd, allowGitConfig) ==
    [i \in 1..(2 * Len(DangerousFiles)) |->
        IF i % 2 = 1 THEN PathPattern(Join(cwd, DangerousFiles[(i + 1) \div 2]))
        ELSE GlobPattern(<<"**">> \o DangerousFiles[i \div 2])]
    \o [i \in 1..(2 * Len(DangerousDirectories)) |->
        IF i % 2 = 1 THEN PathPattern(Join(cwd, DangerousDirectories[(i + 1) \div 2]))
        ELSE GlobPattern(<<"**">> \o DangerousDirectories[i \div 2] \o <<"**">>)]
    \o <<PathPattern(Join(cwd, GitHooks)), GlobPattern(<<"**">> \o GitHooks \o <<"**">>)>>
    \o <<PathPattern(Join(cwd, GitConfig)), GlobPattern(<<"**">> \o GitConfig)>>

\* dangerous.go 290-316
GetMandatoryDenyPatterns(cwd, allowGitConfig) ==
    [i \in 1..(2 * Len(DangerousFiles)) |->
        IF i % 2 = 1 THEN PathPattern(Join(cwd, DangerousFiles[(i + 1) \div 2]))
        ELSE GlobPattern(<<"**">> \o DangerousFiles[i \div 2])]
    \o [i \in 1..(2 * Len(DangerousDirectories)) |->
        IF i % 2 = 1 THEN PathPattern(Join(cwd, DangerousDirectories[(i + 1) \div 2]))
        ELSE GlobPattern(<<"**">> \o DangerousDirectories[i \div 2] \o <<"**">>)]
    \o <<PathPattern(Join(cwd, GitHooks)), GlobPattern(<<"**">> \o GitHooks \o <<"**">>)>>
    \o (IF ~allowGitConfig
        THEN <<PathPattern(Join(cwd, GitConfig)), GlobPattern(<<"**">> \o GitConfig)>>
        ELSE <<>>)

\* working directories of the inputs
CwdInputs == SeqUpTo({"h", "w", ".git"}, MaxCwdDepth)

InitPatterns ==
    /\ IdleLinux
    /\ cfg = DefaultCfg
    /\ \E cwd \in CwdInputs, agc \in BOOLEAN :
           aux = [comp |-> "patterns", stage |-> "start", cwd |-> cwd, allowGitConfig |-> agc,
                  patterns |-> <<>>]

CallGetMandatoryDenyPatterns ==
    /\ aux.comp = "patterns"
    /\ aux.stage = "start"
    /\ aux' = [aux EXCEPT !.stage = "done",
                          !.patterns = GetMandatoryDenyPatterns(aux.cwd, aux.allowGitConfig)]
    /\ UNCHANGED <<cfg, linuxVars>>

NextPatterns == CallGetMandatoryDenyPatterns

SpecPatterns == InitPatterns /\ [][NextPatterns]_vars

(***************************************************************************)
(* FindDangerousFiles (dangerous.go 157-287): the bounded walk below a     *)
(* root directory.  A tree is a record of directory and file paths given   *)
(* relative to the root; results are absolute paths.                       *)
(***************************************************************************)
MaxWalkDepth == 2   \* largest maxDepth passed to the walk
MaxItems == 2       \* catalog instances planted in a tree

WalkRoot == <<"w">>

\* names occurring in the trees, in the lexical order filepath.WalkDir visits them
WalkNames ==
    <<".bashrc", ".claude", ".git", ".vscode", "a", "b", "c", "commands", "config",
      "d", "e", "hooks", "node_modules", "not.claude">>

\* a name as a string: the pieces it is written with
Chunks(name) == IF name = "not.claude" THEN <<"not", ".claude">> ELSE <<name>>

\* a relative path as the string filepath hands to the callback
RECURSIVE PathString(_)
PathString(p) ==
    IF p = <<>> THEN <<>>
    ELSE Chunks(Head(p)) \o (IF Len(p) > 1 THEN <<"/">> \o PathString(Tail(p)) ELSE <<>>)

\* strings.HasSuffix
HasSuffix(s, t) == Len(t) <= Len(s) /\ SubSeq(s, Len(s) - Len(t) + 1, Len(s)) = t

\* strings.Contains(dd, Separator)
isMultiComponent(dd) == Len(dd) > 1

\* faulty variant: the separator before the suffix is not looked at
matchesMultiComponent_SuffixOnly(rel, dd) ==
    HasSuffix(PathString(rel), PathString(dd))

\* dangerous.go 271-274: suffix match on a path-component boundary
matchesMultiComponent(rel, dd) ==
    LET r == PathString(rel)
        s == PathString(dd)
    IN  /\ HasSuffix(r, s)
        /\ (r = s \/ r[Len(r) - Len(s)] = "/")

WalkSkip(found) == [add |-> found, skip |-> TRUE]
WalkOn(found) == [add |-> found, skip |-> FALSE]

\* dangerous.go 202-284: the WalkDir callback for one entry below the root
walkFn(t, maxDepth, rel) ==
    LET nComp == Len(rel)
        name == rel[nComp]
        isDir == rel \in t.dirs
        subdirLevel == nComp - 1
    IN  IF isDir /\ name = "node_modules" THEN WalkSkip(<<>>)
        ELSE IF isDir /\ name = ".git"
        THEN WalkSkip(IF subdirLevel >= 1 /\ subdirLevel <= maxDepth
                      THEN (IF Append(rel, "hooks") \in t.dirs
                            THEN <<Join(WalkRoot, Append(rel, "hooks"))>> ELSE <<>>)
                           \o (IF Append(rel, "config") \in t.files
                               THEN <<Join(WalkRoot, Append(rel, "config"))>> ELSE <<>>)
                      ELSE <<>>)
        ELSE IF nComp = 1 THEN WalkOn(<<>>)
        ELSE IF isDir /\ subdirLevel > maxDepth THEN WalkSkip(<<>>)
        ELSE IF ~isDir /\ Contains(DangerousFiles, <<name>>) /\ subdirLevel <= maxDepth
        THEN WalkOn(<<Join(WalkRoot, rel)>>)
        ELSE IF isDir /\ Contains(DangerousDirectories, <<name>>) /\ subdirLevel <= maxDepth
        THEN WalkSkip(<<Join(WalkRoot, rel)>>)
        ELSE IF /\ isDir
                /\ \E i \in 1..Len(DangerousDirectories) :
                       /\ isMultiComponent(DangerousDirectories[i])
                       /\ subdirLevel <= maxDepth
                       /\ matchesMultiComponent(rel, DangerousDirectories[i])
        THEN WalkSkip(<<Join(WalkRoot, rel)>>)
        ELSE WalkOn(<<>>)

\* filepath.WalkDir below directory rel: the entries named WalkNames[i..], in
\* order, each followed by its own subtree unless the callback skipped it
RECURSIVE WalkDir(_, _, _, _)
WalkDir(t, maxDepth, rel, i) ==
    IF i > Len(WalkNames) THEN <<>>
    ELSE LET p == Append(rel, WalkNames[i])
         IN  IF p \notin (t.dirs \cup t.files) THEN WalkDir(t, maxDepth, rel, i + 1)
             ELSE LET v == walkFn(t, maxDepth, p)
                  IN  v.add
                      \o (IF p \in t.dirs /\ ~v.skip THEN WalkDir(t, maxDepth, p, 1) ELSE <<>>)
                      \o WalkDir(t, maxDepth, rel, i + 1)

\* dangerous.go 171-287
FindDangerousFiles(t, maxDepth) ==
    IF maxDepth <= 0 THEN <<>> ELSE WalkDir(t, maxDepth, <<>>, 1)

\* the plain directory k levels below the root: a, a/b, a/b/c, ...
LevelDir(k) == SubSeq(<<"a", "b", "c", "d", "e">>, 1, k)

\* directories the catalog instances are planted in
WalkParents ==
    {LevelDir(k) : k \in 0..(MaxWalkDepth + 1)}
    \cup {<<"node_modules">>, <<"a", ".vscode">>, <<"a", ".git">>}

\* what is planted: a dangerous file, a dangerous directory of one and of two
\* components, the hooks and config of a repository, and a near miss
WalkEntries ==
    { [rel |-> <<".bashrc">>, dir |-> FALSE],
      [rel |-> <<".vscode">>, dir |-> TRUE],
      [rel |-> <<".claude", "commands">>, dir |-> TRUE],
      [rel |-> GitHooks, dir |-> TRUE],
      [rel |-> GitConfig, dir |-> FALSE],
      [rel |-> <<"not.claude", "commands">>, dir |-> TRUE] }

WalkItems == {[path |-> Join(d, e.rel), dir |-> e.dir] : d \in WalkParents, e \in WalkEntries}

ProperPrefixes(p) == {SubSeq(p, 1, k) : k \in 1..(Len(p) - 1)}

TreeOf(items) ==
    [dirs |-> UNION {ProperPrefixes(it.path) : it \in items}
                  \cup {it.path : it \in {x \in items : x.dir}},
     files |-> {it.path : it \in {x \in items : ~x.dir}}]

\* the subsets of S with at most n elements
RECURSIVE SubsetsUpTo(_, _)
SubsetsUpTo(S, n) ==
    IF n = 0 THEN {{}}
    ELSE LET r == SubsetsUpTo(S, n - 1) IN r \cup {X \cup {x} : X \in r, x \in S}

WalkTrees == {TreeOf(S) : S \in SubsetsUpTo(WalkItems, MaxItems)}

InitWalk ==
    /\ IdleLinux
    /\ cfg = DefaultCfg
    /\ \E t \in WalkTrees, md \in (-1)..MaxWalkDepth :
           aux = [comp |-> "walk", stage |-> "start", tree |-> t, maxDepth |-> md,
                  results |-> <<>>]

CallFindDangerousFiles ==
    /\ aux.comp = "walk"
    /\ aux.stage = "start"
    /\ aux' = [aux EXCEPT !.stage = "done",
                          !.results = FindDangerousFiles(aux.tree, aux.maxDepth)]
    /\ UNCHANGED <<cfg, linuxVars>>

NextWalk == CallFindDangerousFiles

SpecWalk == InitWalk /\ [][NextWalk]_vars

(***************************************************************************)
(* The socat bridges (linux.go 52-208): construction step by step, the     *)
(* socat processes and the socket files they leave on disk, and Cleanup.   *)
(* A process is "unset" (no command yet), "failed" (Start returned an      *)
(* error, no process), "running", "exited" (ended, not yet waited for) or  *)
(* "reaped" (waited for).                                                  *)
(***************************************************************************)
MaxPorts == 2       \* exposed ports of a reverse bridge
MaxCleanups == 2    \* Cleanup calls by the owner of a bridge

PollLimit == 50     \* polls for the socket files

HTTPSocketPath == [kind |-> "http", port |-> 0]
SOCKSSocketPath == [kind |-> "socks", port |-> 0]
ReverseSocketPath(port) == [kind |-> "rev", port |-> port]

Started(st) == st \in {"running", "exited", "reaped"}

\* faulty variant: no signal is sent
Kill_NoSignal(st) == st

\* Process.Kill: a running process is ended; otherwise an error the callers drop
Kill(st) == IF st = "running" THEN "exited" ELSE st

\* Cmd.Wait returns once the process has ended
WaitReturns(st) == st # "running"

\* Cmd.Wait: an ended process is reaped; a second Wait is an error the callers drop
Wait(st) == IF st = "exited" THEN "reaped" ELSE st

\* linux.go 121-128, 193-198: Kill then Wait, when a process was started
killAndWait(st) == IF Started(st) THEN Wait(Kill(st)) ELSE st

\* Cleanup gets past every Wait of bridge b
CleanupReturns(b) ==
    \A i \in 1..Len(b.procs) : Started(b.procs[i]) => WaitReturns(Kill(b.procs[i]))

\* linux.go 119-137
LinuxBridgeCleanup(b) ==
    [b EXCEPT !.procs = <<killAndWait(b.procs[1]), killAndWait(b.procs[2])>>,
              !.files = b.files \ {HTTPSocketPath, SOCKSSocketPath},
              !.cleanups = b.cleanups + 1]

\* linux.go 191-208
ReverseBridgeCleanup(b) ==
    [b EXCEPT !.procs = [i \in 1..Len(b.procs) |-> killAndWait(b.procs[i])],
              !.files = b.files \ SeqToSet(b.paths),
              !.cleanups = b.cleanups + 1]

ReturnErr(b) == [b EXCEPT !.pc = "returned", !.ret = "err"]
ReturnOK(b) == [b EXCEPT !.pc = "returned", !.ret = "ok"]

\* faulty variant: the error is returned with the HTTP bridge left behind
failStartSOCKS_NoCleanup(b) == ReturnErr([b EXCEPT !.procs[2] = "failed"])

\* linux.go 97-100
failStartSOCKS(b) == ReturnErr(LinuxBridgeCleanup([b EXCEPT !.procs[2] = "failed"]))

InitBridge ==
    /\ IdleLinux
    /\ cfg = DefaultCfg
    /\ \E k \in {"linux", "reverse"}, s \in BOOLEAN, n \in 0..MaxPorts :
           /\ (k = "linux" => n = 0)
           /\ aux = [comp |-> "bridge", kind |-> k, socat |-> s,
                     ports |-> [i \in 1..n |-> i],
                     pc |-> "new", ret |-> "none",
                     procs |-> IF k = "linux" THEN <<"unset", "unset">> ELSE <<>>,
                     paths |-> IF k = "linux" THEN <<HTTPSocketPath, SOCKSSocketPath>> ELSE <<>>,
                     files |-> {}, polls |-> 0, cleanups |-> 0]

BridgeStep(b) ==
    /\ aux' = b
    /\ UNCHANGED <<cfg, linuxVars>>

\* linux.go 54-57: exec.LookPath("socat")
LinuxLookPath ==
    /\ aux.comp = "bridge" /\ aux.kind = "linux" /\ aux.pc = "new"
    /\ BridgeStep(IF aux.socat THEN [aux EXCEPT !.pc = "startHTTP"] ELSE ReturnErr(aux))

\* linux.go 76-84: the HTTP bridge is started; on error the constructor returns
LinuxStartHTTP(ok) ==
    /\ aux.comp = "bridge" /\ aux.kind = "linux" /\ aux.pc = "startHTTP"
    /\ BridgeStep(IF ok THEN [aux EXCEPT !.procs[1] = "running", !.pc = "startSOCKS"]
                  ELSE ReturnErr([aux EXCEPT !.procs[1] = "failed"]))

\* linux.go 86-100: the SOCKS bridge is started; on error Cleanup, then return
LinuxStartSOCKS(ok) ==
    /\ aux.comp = "bridge" /\ aux.kind = "linux" /\ aux.pc = "startSOCKS"
    /\ BridgeStep(IF ok THEN [aux EXCEPT !.procs[2] = "running", !.pc = "poll"]
                  ELSE failStartSOCKS(aux))

\* linux.go 102-116: one round of the wait loop; after the last round Cleanup and error
LinuxPoll ==
    /\ aux.comp = "bridge" /\ aux.kind = "linux" /\ aux.pc = "poll"
    /\ BridgeStep(IF {HTTPSocketPath, SOCKSSocketPath} \subseteq aux.files THEN ReturnOK(aux)
                  ELSE IF aux.polls + 1 < PollLimit THEN [aux EXCEPT !.polls = aux.polls + 1]
                  ELSE ReturnErr(LinuxBridgeCleanup([aux EXCEPT !.polls = aux.polls + 1])))

\* a running socat of the outbound bridge binds its UNIX-LISTEN socket
SocatBinds(i) ==
    /\ aux.comp = "bridge" /\ aux.kind = "linux"
    /\ aux.procs[i] = "running"
    /\ aux.paths[i] \notin aux.files
    /\ BridgeStep([aux EXCEPT !.files = aux.files \cup {aux.paths[i]}])

\* a running socat ends on its own
SocatExits(i) ==
    /\ aux.comp = "bridge"
    /\ i \in 1..Len(aux.procs)
    /\ aux.procs[i] = "running"
    /\ BridgeStep([aux EXCEPT !.procs[i] = "exited"])

\* linux.go 141-148: no ports, nothing to build; then exec.LookPath("socat")
ReverseLookPath ==
    /\ aux.comp = "bridge" /\ aux.kind = "reverse" /\ aux.pc = "new"
    /\ BridgeStep(IF Len(aux.ports) = 0 THEN [aux EXCEPT !.pc = "returned", !.ret = "nil"]
                  ELSE IF aux.socat THEN [aux EXCEPT !.pc = "startPort"]
                  ELSE ReturnErr(aux))

\* linux.go 162-182, 188: one round of the loop over the ports
ReverseStartPort(ok) ==
    /\ aux.comp = "bridge" /\ aux.kind = "reverse" /\ aux.pc = "startPort"
    /\ LET port == aux.ports[Len(aux.paths) + 1]
           b == [aux EXCEPT !.paths = Append(aux.paths, ReverseSocketPath(port))]
           started == [b EXCEPT !.procs = Append(b.procs, "running")]
       IN  BridgeStep(IF ~ok THEN ReturnErr(ReverseBridgeCleanup(b))
                      ELSE IF Len(started.paths) = Len(aux.ports) THEN ReturnOK(started)
                      ELSE started)

\* the sandboxed side binds the socket of an exposed port (UNIX-LISTEN in the inner script)
SandboxBinds(i) ==
    /\ aux.comp = "bridge" /\ aux.kind = "reverse" /\ aux.ret = "ok"
    /\ i \in 1..Len(aux.paths)
    /\ aux.paths[i] \notin aux.files
    /\ BridgeStep([aux EXCEPT !.files = aux.files \cup {aux.paths[i]}])

\* the owner of a bridge calls Cleanup (linux.go 119-137, 191-208)
BridgeCleanup ==
    /\ aux.comp = "bridge" /\ aux.ret = "ok"
    /\ aux.cleanups < MaxCleanups
    /\ CleanupReturns(aux)
    /\ BridgeStep(IF aux.kind = "linux" THEN LinuxBridgeCleanup(aux) ELSE ReverseBridgeCleanup(aux))

NextBridge ==
    \/ LinuxLookPath
    \/ \E ok \in BOOLEAN : LinuxStartHTTP(ok)
    \/ \E ok \in BOOLEAN : LinuxStartSOCKS(ok)
    \/ LinuxPoll
    \/ \E i \in 1..2 : SocatBinds(i)
    \/ \E i \in 1..MaxPorts : SocatExits(i)
    \/ ReverseLookPath
    \/ \E ok \in BOOLEAN : ReverseStartPort(ok)
    \/ \E i \in 1..MaxPorts : SandboxBinds(i)
    \/ BridgeCleanup

SpecBridge == InitBridge /\ [][NextBridge]_vars

(***************************************************************************)
(* GenerateProxyEnvVars (utils.go 51-105): the proxy environment handed to *)
(* a sandboxed command, as a sequence of variables with their values cut   *)
(* into words.                                                             *)
(***************************************************************************)
EnvVar(n, w) == [name |-> n, words |-> w]

GenerateProxyEnvVars(httpPort, socksPort) ==
    LET noProxy == <<"localhost", "127.0.0.1", "::1", "*.local", ".local", "169.254.0.0/16",
                     "10.0.0.0/8", "172.16.0.0/12", "192.168.0.0/16">>
        proxyURL == <<"http://localhost:", ToString(httpPort)>>
        socksURL == <<"socks5h://localhost:", ToString(socksPort)>>
    IN  <<EnvVar("FENCE_SANDBOX", <<"1">>), EnvVar("TMPDIR", <<"/tmp/fence">>)>>
        \o (IF httpPort = 0 /\ socksPort = 0 THEN <<>>
            ELSE <<EnvVar("NO_PROXY", noProxy), EnvVar("no_proxy", noProxy)>>
                 \o (IF httpPort > 0
                     THEN <<EnvVar("HTTP_PROXY", proxyURL), EnvVar("HTTPS_PROXY", proxyURL),
                            EnvVar("http_proxy", proxyURL), EnvVar("https_proxy", proxyURL)>>
                     ELSE <<>>)
                 \o (IF socksPort > 0
                     THEN <<EnvVar("ALL_PROXY", socksURL), EnvVar("all_proxy", socksURL),
                            EnvVar("FTP_PROXY", socksURL), EnvVar("ftp_proxy", socksURL),
                            EnvVar("GIT_SSH_COMMAND",
                                   <<"ssh -o ProxyCommand='nc -X 5 -x localhost:",
                                     ToString(socksPort), " %h %p'">>)>>
                     ELSE <<>>))

(***************************************************************************)
(* ResolveExecutionShell (utils.go 138-201).  The value of $SHELL is a     *)
(* string cut into pieces: " " is white space, "/" the separator, any      *)
(* other piece a name.                                                     *)
(***************************************************************************)
ShellModeDefault == "default"
ShellModeUser == "user"

\* faulty variant: any interpreter passes
allowedUserShells_WithPython == {"sh", "bash", "zsh", "ksh", "dash", "fish", "python"}

\* utils.go 145-152
allowedUserShells == {"sh", "bash", "zsh", "ksh", "dash", "fish"}

\* strings.TrimSpace
RECURSIVE TrimLeft(_)
TrimLeft(s) == IF s # <<>> /\ Head(s) = " " THEN TrimLeft(Tail(s)) ELSE s
RECURSIVE TrimRight(_)
TrimRight(s) ==
    IF s # <<>> /\ s[Len(s)] = " " THEN TrimRight(SubSeq(s, 1, Len(s) - 1)) ELSE s
TrimSpace(s) == TrimRight(TrimLeft(s))

\* filepath.IsAbs
IsAbs(s) == s # <<>> /\ Head(s) = "/"

\* filepath.Base
RECURSIVE Base(_)
Base(s) ==
    IF s = <<>> THEN "."
    ELSE IF s[Len(s)] = "/" THEN (IF Len(s) = 1 THEN "/" ELSE Base(SubSeq(s, 1, Len(s) - 1)))
    ELSE s[Len(s)]

ShellError == [path |-> <<>>, flag |-> "", err |-> TRUE]

\* utils.go 158-201; bashOnPath is what exec.LookPath("bash") finds (<<>>: nothing),
\* stat what os.Stat says of the trimmed $SHELL: "missing", "dir", "noexec" or "exec"
ResolveExecutionShell(mode, login, shellEnv, bashOnPath, stat) ==
    LET m == IF mode = "" THEN ShellModeDefault ELSE mode
        envShell == TrimSpace(shellEnv)
        shellFlag == IF login THEN "-lc" ELSE "-c"
    IN  IF m = ShellModeDefault
        THEN IF bashOnPath = <<>> THEN ShellError
             ELSE [path |-> bashOnPath, flag |-> shellFlag, err |-> FALSE]
        ELSE IF m = ShellModeUser
        THEN IF envShell = <<>> THEN ShellError
             ELSE IF ~IsAbs(envShell) THEN ShellError
             ELSE IF Base(envShell) \notin allowedUserShells THEN ShellError
             ELSE IF stat = "missing" THEN ShellError
             ELSE IF stat = "dir" \/ stat = "noexec" THEN ShellError
             ELSE [path |-> envShell, flag |-> shellFlag, err |-> FALSE]
        ELSE ShellError

\* values of $SHELL
ShellEnvInputs ==
    { <<>>, <<" ">>,
      <<"/", "bin", "/", "bash">>, <<"/", "bin", "/", "sh">>, <<"/", "usr", "/", "bin", "/", "zsh">>,
      <<"/", "bin", "/", "ksh">>, <<"/", "bin", "/", "dash">>, <<"/", "usr", "/", "bin", "/", "fish">>,
      <<" ", "/", "bin", "/", "bash", " ">>, <<"/", "bin", "/", "zsh", " ">>,
      <<"bash">>, <<"bin", "/", "bash">>,
      <<"/", "usr", "/", "bin", "/", "python">>, <<"/", "bin", "/", "bash", "/">>, <<"/">> }

InitShell ==
    /\ IdleLinux
    /\ cfg = DefaultCfg
    /\ \E mode \in {"", ShellModeDefault, ShellModeUser, "custom"}, login \in BOOLEAN,
          sh \in ShellEnvInputs, bash \in {<<>>, <<"/", "usr", "/", "bin", "/", "bash">>},
          st \in {"missing", "dir", "noexec", "exec"} :
           \* a path written with a trailing separator names a directory or nothing
           /\ (sh # <<>> /\ TrimSpace(sh) # <<>> /\ TrimSpace(sh)[Len(TrimSpace(sh))] = "/"
                   => st \in {"missing", "dir"})
           /\ aux = [comp |-> "shell", stage |-> "start", mode |-> mode, login |-> login,
                  shellEnv |-> sh, bashOnPath |-> bash, stat |-> st, result |-> ShellError]

CallResolveExecutionShell ==
    /\ aux.comp = "shell"
    /\ aux.stage = "start"
    /\ aux' = [aux EXCEPT !.stage = "done",
                          !.result = ResolveExecutionShell(aux.mode, aux.login, aux.shellEnv,
                                                           aux.bashOnPath, aux.stat)]
    /\ UNCHANGED <<cfg, linuxVars>>

NextShell == CallResolveExecutionShell

SpecShell == InitShell /\ [][NextShell]_vars

(***************************************************************************)
(* MarshalConfigJSON (config_file.go 16-167) and the parse of its output.  *)
(* A slice is nil or holds items; a pointer-to-bool is "unset", "true" or  *)
(* "false"; a JSON member is present with a value or absent.               *)
(***************************************************************************)
NilSlice == [nil |-> TRUE, items |-> <<>>]
Slice(items) == [nil |-> FALSE, items |-> items]

Absent == [present |-> FALSE, value |-> "none"]
Present(v) == [present |-> TRUE, value |-> v]

\* encoding/json omitempty: false, 0, "", a nil pointer and a slice of
\* length 0 are left out
OmitEmpty(kind, v) ==
    IF kind = "slice" THEN (IF Len(v.items) = 0 THEN Absent ELSE Present(v.items))
    ELSE IF kind = "bool" THEN (IF v = FALSE THEN Absent ELSE Present(v))
    ELSE IF kind = "int" THEN (IF v = 0 THEN Absent ELSE Present(v))
    ELSE IF kind = "string" THEN (IF v = "" THEN Absent ELSE Present(v))
    ELSE (IF v = "unset" THEN Absent ELSE Present(v))

\* the kind of each member, section by section (config_file.go 16-66)
cleanNetworkConfig ==
    [allowedDomains |-> "slice", deniedDomains |-> "slice", allowUnixSockets |-> "slice",
     allowAllUnixSockets |-> "bool", allowLocalBinding |-> "bool",
     allowLocalOutbound |-> "pointer", httpProxyPort |-> "int", socksProxyPort |-> "int"]
cleanFilesystemConfig ==
    [defaultDenyRead |-> "bool", wslInterop |-> "pointer", allowRead |-> "slice",
     allowExecute |-> "slice", denyRead |-> "slice", allowWrite |-> "slice",
     denyWrite |-> "slice", allowGitConfig |-> "bool"]
cleanCommandConfig == [deny |-> "slice", allow |-> "slice", useDefaults |-> "pointer"]
cleanSSHConfig ==
    [allowedHosts |-> "slice", deniedHosts |-> "slice", allowedCommands |-> "slice",
     deniedCommands |-> "slice", allowAllCommands |-> "bool", inheritDeny |-> "bool"]

\* config_file.go 132-141
isNetworkEmpty(n) ==
    /\ Len(n.allowedDomains.items) = 0
    /\ Len(n.deniedDomains.items) = 0
    /\ Len(n.allowUnixSockets.items) = 0
    /\ ~n.allowAllUnixSockets
    /\ ~n.allowLocalBinding
    /\ n.allowLocalOutbound = "unset"
    /\ n.httpProxyPort = 0
    /\ n.socksProxyPort = 0

\* faulty variant: a section holding only allowGitConfig counts as empty
isFilesystemEmpty_IgnoresGitConfig(f) ==
    /\ ~f.defaultDenyRead
    /\ f.wslInterop = "unset"
    /\ Len(f.allowRead.items) = 0
    /\ Len(f.allowExecute.items) = 0
    /\ Len(f.denyRead.items) = 0
    /\ Len(f.allowWrite.items) = 0
    /\ Len(f.denyWrite.items) = 0

\* config_file.go 143-152
isFilesystemEmpty(f) ==
    /\ ~f.defaultDenyRead
    /\ f.wslInterop = "unset"
    /\ Len(f.allowRead.items) = 0
    /\ Len(f.allowExecute.items) = 0
    /\ Len(f.denyRead.items) = 0
    /\ Len(f.allowWrite.items) = 0
    /\ Len(f.denyWrite.items) = 0
    /\ ~f.allowGitConfig

\* config_file.go 154-158
isCommandEmpty(c) ==
    /\ Len(c.deny.items) = 0
    /\ Len(c.allow.items) = 0
    /\ c.useDefaults = "unset"

\* config_file.go 160-167
isSSHEmpty(s) ==
    /\ Len(s.allowedHosts.items) = 0
    /\ Len(s.deniedHosts.items) = 0
    /\ Len(s.allowedCommands.items) = 0
    /\ Len(s.deniedCommands.items) = 0
    /\ ~s.allowAllCommands
    /\ ~s.inheritDeny

\* a section as a JSON object: each member under omitempty
MarshalSection(kinds, sec) == [f \in DOMAIN kinds |-> OmitEmpty(kinds[f], sec[f])]

\* config_file.go 70-130
MarshalConfigJSON(c) ==
    [extends |-> OmitEmpty("string", c.extends),
     allowPty |-> OmitEmpty("bool", c.allowPty),
     network |-> IF ~isNetworkEmpty(c.network)
                 THEN Present(MarshalSection(cleanNetworkConfig, c.network)) ELSE Absent,
     filesystem |-> IF ~isFilesystemEmpty(c.filesystem)
                    THEN Present(MarshalSection(cleanFilesystemConfig, c.filesystem)) ELSE Absent,
     command |-> IF ~isCommandEmpty(c.command)
                 THEN Present(MarshalSection(cleanCommandConfig, c.command)) ELSE Absent,
     ssh |-> IF ~isSSHEmpty(c.ssh)
             THEN Present(MarshalSection(cleanSSHConfig, c.ssh)) ELSE Absent]

\* the zero value of a kind
ZeroValue(kind) ==
    IF kind = "slice" THEN NilSlice
    ELSE IF kind = "bool" THEN FALSE
    ELSE IF kind = "int" THEN 0
    ELSE IF kind = "string" THEN ""
    ELSE "unset"

\* decoding one member: an absent member leaves the zero value
ParseMember(kind, m) ==
    IF ~m.present THEN ZeroValue(kind)
    ELSE IF kind = "slice" THEN Slice(m.value)
    ELSE m.value

ParseSection(kinds, m) ==
    [f \in DOMAIN kinds |->
        IF m.present THEN ParseMember(kinds[f], m.value[f]) ELSE ZeroValue(kinds[f])]

\* the policy a JSON document decodes to
ParseConfig(doc) ==
    [extends |-> ParseMember("string", doc.extends),
     allowPty |-> ParseMember("bool", doc.allowPty),
     network |-> ParseSection(cleanNetworkConfig, doc.network),
     filesystem |-> ParseSection(cleanFilesystemConfig, doc.filesystem),
     command |-> ParseSection(cleanCommandConfig, doc.command),
     ssh |-> ParseSection(cleanSSHConfig, doc.ssh)]

ZeroSection(kinds) == [f \in DOMAIN kinds |-> ZeroValue(kinds[f])]

\* &Config{}
ZeroConfig ==
    [extends |-> "", allowPty |-> FALSE, network |-> ZeroSection(cleanNetworkConfig),
     filesystem |-> ZeroSection(cleanFilesystemConfig),
     command |-> ZeroSection(cleanCommandConfig), ssh |-> ZeroSection(cleanSSHConfig)]

\* values of the members of a policy
SliceInputs == {NilSlice, Slice(<<>>), Slice(<<"x">>)}
PointerInputs == {"unset", "true", "false"}
PortInputs == {0, 8080}

NetworkInputs ==
    [allowedDomains : SliceInputs, deniedDomains : SliceInputs, allowUnixSockets : SliceInputs,
     allowAllUnixSockets : BOOLEAN, allowLocalBinding : BOOLEAN,
     allowLocalOutbound : PointerInputs, httpProxyPort : PortInputs, socksProxyPort : PortInputs]
FilesystemInputs ==
    [defaultDenyRead : BOOLEAN, wslInterop : PointerInputs, allowRead : SliceInputs,
     allowExecute : SliceInputs, denyRead : SliceInputs, allowWrite : SliceInputs,
     denyWrite : SliceInputs, allowGitConfig : BOOLEAN]
CommandSectionInputs == [deny : SliceInputs, allow : SliceInputs, useDefaults : PointerInputs]
SSHInputs ==
    [allowedHosts : SliceInputs, deniedHosts : SliceInputs, allowedCommands : SliceInputs,
     deniedCommands : SliceInputs, allowAllCommands : BOOLEAN, inheritDeny : BOOLEAN]

\* policies: one section takes every value, the rest of the policy is empty
ConfigInputs ==
    {[ZeroConfig EXCEPT !.extends = x, !.allowPty = b] : x \in {"", "code"}, b \in BOOLEAN}
    \cup {[ZeroConfig EXCEPT !.network = n] : n \in NetworkInputs}
    \cup {[ZeroConfig EXCEPT !.filesystem = f] : f \in FilesystemInputs}
    \cup {[ZeroConfig EXCEPT !.command = c, !.allowPty = b] : c \in CommandSectionInputs, b \in BOOLEAN}
    \cup {[ZeroConfig EXCEPT !.ssh = s] : s \in SSHInputs}

InitJSON ==
    /\ IdleLinux
    /\ cfg = DefaultCfg
    /\ \E c \in ConfigInputs :
           aux = [comp |-> "json", stage |-> "start", config |-> c,
                  doc |-> MarshalConfigJSON(ZeroConfig), parsed |-> ZeroConfig]

CallMarshalConfigJSON ==
    /\ aux.comp = "json"
    /\ aux.stage = "start"
    /\ aux' = [aux EXCEPT !.stage = "marshalled", !.doc = MarshalConfigJSON(aux.config)]
    /\ UNCHANGED <<cfg, linuxVars>>

CallParseConfig ==
    /\ aux.comp = "json"
    /\ aux.stage = "marshalled"
    /\ aux' = [aux EXCEPT !.stage = "parsed", !.parsed = ParseConfig(aux.doc)]
    /\ UNCHANGED <<cfg, linuxVars>>

NextJSON == CallMarshalConfigJSON \/ CallParseConfig

SpecJSON == InitJSON /\ [][NextJSON]_vars

(***************************************************************************)
(* Executables denied at exec time.  A deny rule is a sequence of pieces:  *)
(* names, blanks, quotes, path separators and shell syntax characters.     *)
(* A host is its working directory, its executable files, its symbolic     *)
(* links and its PATH.                                                     *)
(***************************************************************************)
MaxRuleLen == 3     \* pieces of a generated deny rule
MaxRules == 2       \* deny rules of a policy

commonExecutableDirs ==
    << <<"usr", "bin">>, <<"bin">>, <<"usr", "local", "bin">>,
       <<"opt", "homebrew", "bin">>, <<"opt", "local", "bin">> >>

\* the characters of strings.ContainsAny(token, ...): shell matching syntax, the backquote by name
RuntimeSyntaxChars == {"*", "?", "[", "]", "|", "&", ";", "(", ")", "<", ">", "$", "backquote", "="}

\* the catalog entries as deny rules of one name each
Spelling == [halt |-> <<"h", "a", "l", "t">>, reboot |-> <<"r", "e", "b", "o", "o", "t">>]
DefaultDenyRules ==
    [i \in 1..Len(DefaultDeniedCommands) |->
        <<CHOOSE n \in DOMAIN Spelling : Spelling[n] = DefaultDeniedCommands[i]>>]

\* tokens of a command text: split at blanks outside quotes, quotes removed
RECURSIVE tokenizeFrom(_, _, _)
tokenizeFrom(s, cur, inQuote) ==
    IF s = <<>> THEN (IF cur # <<>> THEN <<cur>> ELSE <<>>)
    ELSE IF Head(s) = "\"" THEN tokenizeFrom(Tail(s), cur, ~inQuote)
    ELSE IF Head(s) = " " /\ ~inQuote
         THEN (IF cur # <<>> THEN <<cur>> ELSE <<>>) \o tokenizeFrom(Tail(s), <<>>, inQuote)
    ELSE tokenizeFrom(Tail(s), Append(cur, Head(s)), inQuote)

tokenizeCommand(s) == tokenizeFrom(s, <<>>, FALSE)

NoToken == [ok |-> FALSE, token |-> <<>>]

\* faulty variant: a rule with arguments yields its first token
runtimeExecutableToken_FirstToken(rule) ==
    LET tokens == tokenizeCommand(TrimSpace(rule))
    IN  IF tokens = <<>> THEN NoToken
        ELSE IF \E i \in 1..Len(tokens[1]) : tokens[1][i] \in RuntimeSyntaxChars THEN NoToken
        ELSE [ok |-> TRUE, token |-> TrimSpace(tokens[1])]

\* part_005 60-83
runtimeExecutableToken(rule) ==
    LET r == TrimSpace(rule)
        tokens == tokenizeCommand(r)
    IN  IF r = <<>> THEN NoToken
        ELSE IF Len(tokens) # 1 THEN NoToken
        ELSE LET token == TrimSpace(tokens[1])
             IN  IF token = <<>> THEN NoToken
                 ELSE IF \E i \in 1..Len(token) : token[i] \in RuntimeSyntaxChars THEN NoToken
                 ELSE [ok |-> TRUE, token |-> token]

\* a path component spelled by several pieces names no file of the hosts
OtherName == "other"

\* the components of the path a token spells
RECURSIVE TokenComponents(_, _)
TokenComponents(tok, cur) ==
    LET done == IF cur = <<>> THEN <<>> ELSE IF Len(cur) = 1 THEN <<cur[1]>> ELSE <<OtherName>>
    IN  IF tok = <<>> THEN done
        ELSE IF Head(tok) = "/" THEN done \o TokenComponents(Tail(tok), <<>>)
        ELSE TokenComponents(Tail(tok), Append(cur, Head(tok)))

\* part_005 133-142: the path is a file of the host
executablePathExists(host, p) == p \in host.files

\* part_005 96-104: the path and, when it is a link, its target
addCanonicalPath(host, p) ==
    <<p>> \o (IF p \in DOMAIN host.links THEN <<host.links[p]>> ELSE <<>>)

\* exec.LookPath: the first PATH directory holding the name
RECURSIVE LookPath(_, _, _)
LookPath(host, name, i) ==
    IF i > Len(host.PATH) THEN <<>>
    ELSE IF executablePathExists(host, Append(host.PATH[i], name)) THEN <<Append(host.PATH[i], name)>>
    ELSE LookPath(host, name, i + 1)

RECURSIVE CommonDirHits(_, _, _)
CommonDirHits(host, name, i) ==
    IF i > Len(commonExecutableDirs) THEN <<>>
    ELSE LET candidate == Append(commonExecutableDirs[i], name)
         IN  (IF executablePathExists(host, candidate) THEN addCanonicalPath(host, candidate) ELSE <<>>)
             \o CommonDirHits(host, name, i + 1)

\* part_005 85-131
resolveExecutablePaths(host, token) ==
    LET comps == TokenComponents(token, <<>>)
    IN  IF Contains(token, "/")
        THEN LET abs == IF IsAbs(token) THEN comps ELSE Join(host.cwd, comps)
             IN  IF executablePathExists(host, abs) THEN Dedup(addCanonicalPath(host, abs), {}) ELSE <<>>
        ELSE IF Len(comps) # 1 THEN <<>>
        ELSE LET found == LookPath(host, comps[1], 1)
             IN  Dedup((IF found # <<>> THEN addCanonicalPath(host, found[1]) ELSE <<>>)
                       \o CommonDirHits(host, comps[1], 1), {})

\* the paths of the hosts in ascending order of their text
PathsAscending ==
    << <<"bin", "halt">>, <<"usr", "bin", "git">>, <<"usr", "bin", "halt">>, <<"usr", "bin", "python3">>,
       <<"usr", "bin", "python3.11">>, <<"usr", "local", "bin", "python3">> >>
PathRank(p) == CHOOSE i \in 1..Len(PathsAscending) : PathsAscending[i] = p

\* slices.Sort
RECURSIVE slicesInsert(_, _)
slicesInsert(sorted, p) ==
    IF sorted = <<>> THEN <<p>>
    ELSE IF PathRank(p) < PathRank(Head(sorted)) THEN <<p>> \o sorted
    ELSE <<Head(sorted)>> \o slicesInsert(Tail(sorted), p)
RECURSIVE slicesSort(_)
slicesSort(s) == IF s = <<>> THEN <<>> ELSE slicesInsert(slicesSort(Tail(s)), Head(s))

RECURSIVE ResolveRules(_, _, _)
ResolveRules(host, rules, i) ==
    IF i > Len(rules) THEN <<>>
    ELSE LET t == runtimeExecutableToken(rules[i])
         IN  (IF t.ok THEN resolveExecutablePaths(host, t.token) ELSE <<>>) \o ResolveRules(host, rules, i + 1)

\* part_005 21-58
GetRuntimeDeniedExecutablePaths(host, policy) ==
    IF policy.isNil THEN <<>>
    ELSE LET denyRules == policy.deny
                          \o (IF policy.useDefaults \in {"unset", "true"} THEN DefaultDenyRules ELSE <<>>)
         IN  slicesSort(Dedup(ResolveRules(host, denyRules, 1), {}))

HostFull ==
    [cwd |-> <<"usr">>,
     files |-> {<<"bin", "halt">>, <<"usr", "bin", "git">>, <<"usr", "bin", "halt">>, <<"usr", "bin", "python3">>,
                <<"usr", "bin", "python3.11">>, <<"usr", "local", "bin", "python3">>},
     links |-> (<<"bin", "halt">> :> <<"usr", "bin", "halt">>)
               @@ (<<"usr", "bin", "python3">> :> <<"usr", "bin", "python3.11">>),
     PATH |-> << <<"usr", "local", "bin">>, <<"usr", "bin">>, <<"bin">> >>]
HostPlain ==
    [cwd |-> <<"h", "w">>, files |-> {<<"usr", "bin", "halt">>}, links |-> <<>>,
     PATH |-> << <<"usr", "bin">> >>]
HostBare == [cwd |-> <<"h", "w">>, files |-> {}, links |-> <<>>, PATH |-> <<>>]
Hosts == {HostFull, HostPlain, HostBare}

RulePieces == {" ", "\"", "*", "=", "/", "bin", "halt", "python3"}

\* the rules of the repository's tests
TestRules ==
    {<<"python3">>, <<" ", "/", "usr", "/", "bin", "/", "python3", " ">>, <<"git", " ", "push">>,
     <<"dd", " ", "if", "=">>, <<"python3", "*">>, <<>>, <<"bash", " ", "-c">>, <<"halt">>}

DenyLists ==
    {<<r>> : r \in SeqUpTo(RulePieces, MaxRuleLen)}
    \cup {<<Append(<<"halt">>, c)>> : c \in RuntimeSyntaxChars}
    \cup SeqUpTo(TestRules, MaxRules)

InitDeny ==
    /\ IdleLinux
    /\ cfg = DefaultCfg
    /\ \E host \in Hosts :
        \/ \E deny \in DenyLists, ud \in {"unset", "true", "false"} :
            aux = [comp |-> "deny", host |-> host,
                   policy |-> [isNil |-> FALSE, deny |-> deny, useDefaults |-> ud],
                   returned |-> FALSE, paths |-> <<>>]
        \/ aux = [comp |-> "deny", host |-> host,
                  policy |-> [isNil |-> TRUE, deny |-> <<>>, useDefaults |-> "unset"],
                  returned |-> FALSE, paths |-> <<>>]

CallGetRuntimeDeniedExecutablePaths ==
    /\ aux.comp = "deny"
    /\ ~aux.returned
    /\ aux' = [aux EXCEPT !.returned = TRUE,
                          !.paths = GetRuntimeDeniedExecutablePaths(aux.host, aux.policy)]
    /\ UNCHANGED <<cfg, linuxVars>>

NextDeny == CallGetRuntimeDeniedExecutablePaths

SpecDeny == InitDeny /\ [][NextDeny]_vars

(***************************************************************************)
(* The signal relay of a command started on a PTY.  Time is counted in     *)
(* ticks of 10 ms.  The relay goroutine handles whatever is ready before   *)
(* time passes; a signal that arrives while the one-slot channel is full   *)
(* is dropped by the runtime.                                              *)
(***************************************************************************)
MaxTime == 8        \* ticks of a behaviour
MaxSignals == 3     \* signals the relay receives

DebounceDelay == 3  \* 30 ms

RelaySignals == {"SIGINT", "SIGTERM", "SIGWINCH"}

\* pty_runtime 66-68: no timer, no pending channel (0 stands for nil)
newResizeDebouncer == [timer |-> 0, state |-> "nil", deadline |-> 0, ch |-> 0]

\* faulty variant: a pending debounce keeps its deadline
Queue_KeepsDeadline(d, now, fresh) ==
    IF d.timer = 0
    THEN [timer |-> fresh, state |-> "armed", deadline |-> now + DebounceDelay, ch |-> fresh]
    ELSE IF d.state = "armed" THEN [d EXCEPT !.ch = d.timer]
    ELSE [d EXCEPT !.state = "armed", !.deadline = now + DebounceDelay, !.ch = d.timer]

\* pty_runtime 70-77: a new timer the first time, the same timer re-armed afterwards
\* (Reset discards a value that has fired and was not received)
Queue(d, now, fresh) ==
    IF d.timer = 0
    THEN [timer |-> fresh, state |-> "armed", deadline |-> now + DebounceDelay, ch |-> fresh]
    ELSE [d EXCEPT !.state = "armed", !.deadline = now + DebounceDelay, !.ch = d.timer]

\* pty_runtime 79-81
Channel(d) == d.ch

\* pty_runtime 83-85
MarkHandled(d) == [d EXCEPT !.ch = 0]

\* a value can be received from the debouncer's channel
ChannelReady(d) == Channel(d) # 0 /\ d.state = "fired"

Delivery(sig, to) == [sig |-> sig, to |-> to]

\* faulty variant: every received signal advances the escalation count
countsTowardEscalation_Every(sig) == TRUE

\* pty_runtime 154-159: a resize is queued before the count is touched
countsTowardEscalation(sig) == sig # "SIGWINCH"

InitRelay ==
    /\ IdleLinux
    /\ cfg = DefaultCfg
    /\ \E process \in BOOLEAN :
        aux = [comp |-> "relay", process |-> process, now |-> 0, sigChan |-> <<>>,
               debouncer |-> newResizeDebouncer, timers |-> 0, sigCount |-> 0,
               done |-> FALSE, returned |-> FALSE,
               received |-> <<>>, dropped |-> 0, sent |-> <<>>,
               bursts |-> 0, forwards |-> 0, lastWinch |-> 0, lastForward |-> 0]

\* the runtime delivers a signal to the relay's channel (buffer of one)
SignalArrives(sig) ==
    /\ aux.comp = "relay"
    /\ ~aux.returned
    /\ Len(aux.received) + Len(aux.sigChan) + aux.dropped < MaxSignals
    /\ aux.now + DebounceDelay <= MaxTime
    /\ aux' = IF Len(aux.sigChan) < 1 THEN [aux EXCEPT !.sigChan = Append(@, sig)]
              ELSE [aux EXCEPT !.dropped = @ + 1]
    /\ UNCHANGED <<cfg, linuxVars>>

\* pty_runtime 149-171: case sig := <-sigChan
HandleSignal ==
    /\ aux.comp = "relay"
    /\ ~aux.returned
    /\ aux.sigChan # <<>>
    /\ LET sig == Head(aux.sigChan)
           got == [aux EXCEPT !.sigChan = Tail(@), !.received = Append(@, sig)]
       IN  IF ~aux.process THEN aux' = got
           ELSE IF ~countsTowardEscalation(sig)
           THEN aux' = [got EXCEPT !.debouncer = Queue(aux.debouncer, aux.now, aux.timers + 1),
                                   !.timers = IF aux.debouncer.timer = 0 THEN @ + 1 ELSE @,
                                   !.bursts = IF Channel(aux.debouncer) = 0 THEN @ + 1 ELSE @,
                                   !.lastWinch = aux.now]
           ELSE IF aux.sigCount + 1 >= 2
           THEN aux' = [got EXCEPT !.sigCount = @ + 1, !.sent = Append(@, Delivery("SIGKILL", "child"))]
           ELSE \E pgrpKnown \in BOOLEAN :
                    aux' = [got EXCEPT !.sigCount = @ + 1,
                                       !.sent = Append(@, Delivery(sig, IF pgrpKnown THEN "pgrp" ELSE "child"))]
    /\ UNCHANGED <<cfg, linuxVars>>

\* pty_runtime 172-173, 125-142: case <-debouncer.Channel(): forwardResize
HandleDebounce ==
    /\ aux.comp = "relay"
    /\ ~aux.returned
    /\ ChannelReady(aux.debouncer)
    /\ aux' = [aux EXCEPT !.debouncer = [MarkHandled(aux.debouncer) EXCEPT !.state = "drained"],
                          !.forwards = @ + 1, !.lastForward = aux.now]
    /\ UNCHANGED <<cfg, linuxVars>>

\* the cleanup function closes done
CloseDone ==
    /\ aux.comp = "relay"
    /\ ~aux.done
    /\ aux' = [aux EXCEPT !.done = TRUE]
    /\ UNCHANGED <<cfg, linuxVars>>

\* pty_runtime 147-148: case <-done
RelayReturns ==
    /\ aux.comp = "relay"
    /\ aux.done /\ ~aux.returned
    /\ aux' = [aux EXCEPT !.returned = TRUE]
    /\ UNCHANGED <<cfg, linuxVars>>

\* 10 ms pass while the relay waits in its select; an armed timer fires at its deadline
Tick ==
    /\ aux.comp = "relay"
    /\ aux.now < MaxTime
    /\ aux.returned \/ (aux.sigChan = <<>> /\ ~ChannelReady(aux.debouncer) /\ ~aux.done)
    /\ aux' = [aux EXCEPT !.now = @ + 1,
                          !.debouncer.state = IF @ = "armed" /\ aux.now + 1 >= aux.debouncer.deadline
                                              THEN "fired" ELSE @]
    /\ UNCHANGED <<cfg, linuxVars>>

NextRelay ==
    \/ \E sig \in RelaySignals : SignalArrives(sig)
    \/ HandleSignal
    \/ HandleDebounce
    \/ CloseDone
    \/ RelayReturns
    \/ Tick

SpecRelay == InitRelay /\ [][NextRelay]_vars

\* the goroutine runs whenever a case of its select is ready, and time passes
SpecRelayFair == SpecRelay /\ WF_vars(HandleSignal) /\ WF_vars(HandleDebounce) /\ WF_vars(Tick)

(***************************************************************************)
(* The resize broadcast over the process tree.  A /proc snapshot is the    *)
(* parent of every listed pid; 0 stands for a pid without an entry.        *)
(***************************************************************************)
MaxPid == 3         \* pids of a snapshot
MaxCap == 2         \* largest signal cap of a call

Pids == 1..MaxPid

ParentMaps == [Pids -> 0..MaxPid]

\* pty_runtime 270-293: the pids listed under each parent, in directory order
buildProcChildrenMap(parentPID) ==
    [p \in Pids |-> SelectSeq([i \in 1..MaxPid |-> i], LAMBDA c : parentPID[c] = p)]

\* pty_runtime 300-312: one turn of the loop that follows the parent chain
chainStep(current, rootPID, parentPID) ==
    IF current <= 0 THEN [returns |-> TRUE, result |-> FALSE, current |-> current]
    ELSE IF parentPID[current] = 0 THEN [returns |-> TRUE, result |-> FALSE, current |-> current]
    ELSE IF parentPID[current] = rootPID THEN [returns |-> TRUE, result |-> TRUE, current |-> current]
    ELSE IF parentPID[current] = current THEN [returns |-> TRUE, result |-> FALSE, current |-> current]
    ELSE [returns |-> FALSE, result |-> FALSE, current |-> parentPID[current]]

RECURSIVE chainFrom(_, _, _)
chainFrom(current, rootPID, parentPID) ==
    LET s == chainStep(current, rootPID, parentPID)
    IN  IF s.returns THEN s.result ELSE chainFrom(s.current, rootPID, parentPID)

\* pty_runtime 295-314
isDescendantOfRoot(pid, rootPID, parentPID) ==
    IF pid <= 0 \/ rootPID <= 0 THEN FALSE ELSE chainFrom(pid, rootPID, parentPID)

\* faulty variant: the cap is noticed one signal late
capReached_OneLate(signaled, maxSignals) == signaled > maxSignals

\* pty_runtime 264-266
capReached(signaled, maxSignals) == signaled >= maxSignals

RECURSIVE Unvisited(_, _)
Unvisited(s, visited) ==
    IF s = <<>> THEN <<>>
    ELSE (IF Head(s) \in visited THEN <<>> ELSE <<Head(s)>>) \o Unvisited(Tail(s), visited)

InitTree ==
    /\ IdleLinux
    /\ cfg = DefaultCfg
    /\ \E parentPID \in ParentMaps, rootPID \in 0..MaxPid, maxSignals \in 0..MaxCap :
        aux = [comp |-> "tree", parentPID |-> parentPID, rootPID |-> rootPID, maxSignals |-> maxSignals,
               at |-> "call", queue |-> <<>>, visited |-> {}, signaled |-> 0, sent |-> <<>>]

\* pty_runtime 223-235
TreeCall ==
    /\ aux.comp = "tree"
    /\ aux.at = "call"
    /\ aux' = IF aux.rootPID <= 0 \/ aux.maxSignals <= 0 THEN [aux EXCEPT !.at = "returned"]
              ELSE IF \A p \in Pids : buildProcChildrenMap(aux.parentPID)[p] = <<>>
              THEN [aux EXCEPT !.at = "returned"]
              ELSE [aux EXCEPT !.at = "loop", !.queue = <<aux.rootPID>>]
    /\ UNCHANGED <<cfg, linuxVars>>

\* pty_runtime 237-267: one turn of the breadth-first loop
TreeLoop ==
    /\ aux.comp = "tree"
    /\ aux.at = "loop"
    /\ IF aux.queue = <<>> THEN aux' = [aux EXCEPT !.at = "returned"]
       ELSE LET current == Head(aux.queue)
                visited == aux.visited \cup {current}
                queue == Tail(aux.queue)
                            \o Unvisited(buildProcChildrenMap(aux.parentPID)[current], visited)
            IN  IF current \in aux.visited THEN aux' = [aux EXCEPT !.queue = Tail(@)]
                ELSE IF current = aux.rootPID
                THEN aux' = [aux EXCEPT !.queue = queue, !.visited = visited]
                ELSE IF ~isDescendantOfRoot(current, aux.rootPID, aux.parentPID)
                THEN aux' = [aux EXCEPT !.queue = queue, !.visited = visited]
                ELSE aux' = [aux EXCEPT !.queue = queue, !.visited = visited,
                                        !.sent = Append(@, current), !.signaled = @ + 1,
                                        !.at = IF capReached(aux.signaled + 1, aux.maxSignals)
                                               THEN "returned" ELSE @]
    /\ UNCHANGED <<cfg, linuxVars>>

NextTree == TreeCall \/ TreeLoop

SpecTree == InitTree /\ [][NextTree]_vars

\* isDescendantOfRoot called on any pid of any snapshot, one turn of its loop at a time
InitDescend ==
    /\ IdleLinux
    /\ cfg = DefaultCfg
    /\ \E parentPID \in ParentMaps, rootPID \in 0..MaxPid, pid \in 0..MaxPid :
        aux = [comp |-> "descend", parentPID |-> parentPID, rootPID |-> rootPID, pid |-> pid,
               at |-> "call", current |-> 0, result |-> FALSE]

\* pty_runtime 295-299
DescendCall ==
    /\ aux.comp = "descend"
    /\ aux.at = "call"
    /\ aux' = IF aux.pid <= 0 \/ aux.rootPID <= 0 THEN [aux EXCEPT !.at = "returned"]
              ELSE [aux EXCEPT !.at = "loop", !.current = aux.pid]
    /\ UNCHANGED <<cfg, linuxVars>>

\* pty_runtime 300-313
DescendTurn ==
    /\ aux.comp = "descend"
    /\ aux.at = "loop"
    /\ LET s == chainStep(aux.current, aux.rootPID, aux.parentPID)
       IN  aux' = IF s.returns THEN [aux EXCEPT !.at = "returned", !.result = s.result]
                  ELSE [aux EXCEPT !.current = s.current]
    /\ UNCHANGED <<cfg, linuxVars>>

NextDescend == DescendCall \/ DescendTurn

SpecDescend == InitDescend /\ [][NextDescend]_vars

\* the function keeps running until it returns
SpecDescendFair == SpecDescend /\ WF_vars(DescendCall) /\ WF_vars(DescendTurn)

(***************************************************************************)
(* Teardown of the PTY relay: the goroutine that copies the PTY's output   *)
(* and the callers of the returned cleanup function, one statement at a    *)
(* time.                                                                   *)
(***************************************************************************)
MaxCallers == 3     \* calls of the cleanup function

Copier == 0
Callers == 1..MaxCallers

\* faulty variant: the function runs on every call
onceDo_EveryCall(once) == "run"

\* sync.Once.Do: the first call runs the function, a call made meanwhile waits for it,
\* a later call returns at once
onceDo(once) ==
    IF once = "fresh" THEN "run" ELSE IF once = "running" THEN "wait" ELSE "skip"

InitTeardown ==
    /\ IdleLinux
    /\ cfg = DefaultCfg
    /\ aux = [comp |-> "teardown",
              at |-> [p \in {Copier} \cup Callers |-> IF p = Copier THEN "copying" ELSE "idle"],
              doneOnce |-> "fresh", cleanupOnce |-> "fresh",
              doneClosed |-> 0, restored |-> 0, ptmxClosed |-> 0]

\* pty_runtime 182: io.Copy(os.Stdout, ptmx) returns
CopierEOF ==
    /\ aux.comp = "teardown"
    /\ aux.at[Copier] = "copying"
    /\ aux' = [aux EXCEPT !.at[Copier] = "cleanupOnce"]
    /\ UNCHANGED <<cfg, linuxVars>>

\* the cleanup function is called
CallCleanup(c) ==
    /\ aux.comp = "teardown"
    /\ aux.at[c] = "idle"
    /\ aux' = [aux EXCEPT !.at[c] = "doneOnce"]
    /\ UNCHANGED <<cfg, linuxVars>>

\* pty_runtime 191: doneOnce.Do
DoneOnceDo(c) ==
    /\ aux.comp = "teardown"
    /\ aux.at[c] = "doneOnce"
    /\ onceDo(aux.doneOnce) # "wait"
    /\ aux' = IF onceDo(aux.doneOnce) = "run"
              THEN [aux EXCEPT !.at[c] = "closeDone", !.doneOnce = "running"]
              ELSE [aux EXCEPT !.at[c] = "cleanupOnce"]
    /\ UNCHANGED <<cfg, linuxVars>>

\* pty_runtime 191: close(done)
CloseDoneChannel(c) ==
    /\ aux.comp = "teardown"
    /\ aux.at[c] = "closeDone"
    /\ aux' = [aux EXCEPT !.at[c] = "cleanupOnce", !.doneOnce = "done", !.doneClosed = @ + 1]
    /\ UNCHANGED <<cfg, linuxVars>>

\* pty_runtime 184, 192: cleanupOnce.Do
CleanupOnceDo(p) ==
    /\ aux.comp = "teardown"
    /\ aux.at[p] = "cleanupOnce"
    /\ onceDo(aux.cleanupOnce) # "wait"
    /\ aux' = IF onceDo(aux.cleanupOnce) = "run"
              THEN [aux EXCEPT !.at[p] = "restoreTTY", !.cleanupOnce = "running"]
              ELSE [aux EXCEPT !.at[p] = "finished"]
    /\ UNCHANGED <<cfg, linuxVars>>

\* pty_runtime 185, 193: restoreTTY()
RestoreTTY(p) ==
    /\ aux.comp = "teardown"
    /\ aux.at[p] = "restoreTTY"
    /\ aux' = [aux EXCEPT !.at[p] = "closePTY", !.restored = @ + 1]
    /\ UNCHANGED <<cfg, linuxVars>>

\* pty_runtime 186, 194: ptmx.Close()
ClosePTY(p) ==
    /\ aux.comp = "teardown"
    /\ aux.at[p] = "closePTY"
    /\ aux' = [aux EXCEPT !.at[p] = "finished", !.cleanupOnce = "done", !.ptmxClosed = @ + 1]
    /\ UNCHANGED <<cfg, linuxVars>>

NextTeardown ==
    \/ CopierEOF
    \/ \E c \in Callers : CallCleanup(c)
    \/ \E c \in Callers : DoneOnceDo(c)
    \/ \E c \in Callers : CloseDoneChannel(c)
    \/ \E p \in {Copier} \cup Callers : CleanupOnceDo(p)
    \/ \E p \in {Copier} \cup Callers : RestoreTTY(p)
    \/ \E p \in {Copier} \cup Callers : ClosePTY(p)

SpecTeardown == InitTeardown /\ [][NextTeardown]_vars

(***************************************************************************)
(* Reading a mount plan.                                                   *)
(***************************************************************************)
MountOps == {"--ro-bind", "--bind", "--tmpfs", "--dev-bind", "--proc"}

\* a read-only bind of p, or a /dev/null or tmpfs mask over p
Protects(a, p) == a.op \in {"--ro-bind", "--tmpfs"} /\ a.dst = p

\* a writable bind at p or at an ancestor of p
WritableOver(a, p) == a.op = "--bind" /\ IsAncestorOrSelf(a.dst, p)

\* host content bound at q or beneath q
ExposesBeneath(a, q) ==
    a.op \in {"--ro-bind", "--bind"} /\ a.src # DevNull /\ IsAncestorOrSelf(q, a.dst)

HasFlag(o) == \E i \in 1..Len(bwrapArgs) : bwrapArgs[i].op = o

\* the catalog paths of C1: dangerous files and directories under the cwd,
\* cwd/.git/hooks, dangerous files under the home directory
CatalogPaths ==
    {Join(env.cwd, DangerousFiles[i]) : i \in 1..Len(DangerousFiles)}
    \cup {Join(env.cwd, DangerousDirectories[i]) : i \in 1..Len(DangerousDirectories)}
    \cup {Join(env.cwd, GitHooks)}
    \cup {Join(HomeDir, DangerousFiles[i]) : i \in 1..Len(DangerousFiles)}

ProtectedInPlan(p) ==
    \E i \in 1..Len(bwrapArgs) :
        /\ Protects(bwrapArgs[i], p)
        /\ \A j \in (i + 1)..Len(bwrapArgs) : ~WritableOver(bwrapArgs[j], p)

\* C1: every mandatory-deny path that exists on disk has a protecting mount
\* in the argument vector, and no writable bind of the path or of an
\* ancestor follows that mount.
C1_MandatoryDenyProtected ==
    pc = "done" => \A p \in CatalogPaths : fileExists(p) => ProtectedInPlan(p)

\* C2: cwd/.git/config is write-protected exactly when allow_git_config is
\* false (no protecting mount when it is true, one whenever the file exists
\* when it is false); cwd/.git/hooks is protected for both values.
C2_GitConfigProtectedIffNotAllowed ==
    (pc = "done" /\ ~cfg.isNil) =>
        LET gc == Join(env.cwd, GitConfig)
            gh == Join(env.cwd, GitHooks)
            protected(p) == \E i \in 1..Len(bwrapArgs) : Protects(bwrapArgs[i], p)
        IN  /\ cfg.allowGitConfig => ~protected(gc)
            /\ (~cfg.allowGitConfig /\ fileExists(gc)) => protected(gc)
            /\ fileExists(gh) => protected(gh)

\* C3: the argument vector contains --unshare-net if and only if the probe
\* reports network namespaces usable and no allowed domain is exactly "*";
\* a nil policy has no wildcard.
C3_UnshareNetIffNoWildcard ==
    pc = "done" =>
        (HasFlag("--unshare-net")
         <=> (env.features.CanUnshareNet
              /\ (cfg.isNil \/ \A i \in 1..Len(cfg.allowedDomains) : cfg.allowedDomains[i] # <<"*">>)))

\* C3 witness: a pattern with a star that is not the wildcard keeps isolation
C3_Witness ==
    /\ pc = "done" /\ ~cfg.isNil /\ env.features.CanUnshareNet
    /\ \E i \in 1..Len(cfg.allowedDomains) : cfg.allowedDomains[i] = <<"*", ".", "a">>
    /\ HasFlag("--unshare-net")

\* the existing paths deny_write names, normalized or glob-expanded
DenyWriteNamed ==
    IF cfg.isNil THEN {}
    ELSE {p \in SeqToSet(NonGlobPaths(cfg.denyWrite)) \cup SeqToSet(ExpandGlobPatterns(cfg.denyWrite)) :
             fileExists(p)}

\* index of the last mount at p or at an ancestor of p (0 if none)
LastMountOver(p) ==
    LET idx == {i \in 1..Len(bwrapArgs) :
                   bwrapArgs[i].op \in MountOps /\ IsAncestorOrSelf(bwrapArgs[i].dst, p)}
    IN  IF idx = {} THEN 0 ELSE CHOOSE i \in idx : \A j \in idx : j <= i

\* C5: for every existing path deny_write names, the last mount at the path
\* or at an ancestor of it is read-only or a mask.
C5_DenyWriteWins ==
    pc = "done" =>
        \A p \in DenyWriteNamed :
            /\ LastMountOver(p) # 0
            /\ bwrapArgs[LastMountOver(p)].op \in {"--ro-bind", "--tmpfs"}

\* the existing non-symlink paths deny_read names
DenyReadNamed == {p \in DenyReadPaths : canMountOver(p)}

\* C6: every existing non-symlink deny_read path is masked, and no later
\* argument binds host content at the path or beneath it.
C6_DenyReadStaysHidden ==
    pc = "done" =>
        \A p \in DenyReadNamed :
            \E i \in 1..Len(bwrapArgs) :
                /\ bwrapArgs[i] = Mask(p)
                /\ \A j \in (i + 1)..Len(bwrapArgs) : ~ExposesBeneath(bwrapArgs[j], p)


\* C4: on macOS NeedsNetworkRestriction is false if and only if
\* allowed_domains contains the literal "*", whatever denied_domains holds,
\* and the profile has the blanket rule "(allow network*)" if and only if
\* NeedsNetworkRestriction is false.
C4_MacOSWildcardRelaxesNetwork ==
    (aux.comp = "macos" /\ aux.stage = "done") =>
        /\ (~aux.params.NeedsNetworkRestriction) <=> (Star \in SeqToSet(cfg.allowedDomains))
        /\ ProfileHasBlanketAllow(aux.profile) <=> ~aux.params.NeedsNetworkRestriction

\* C4 witness: the empty policy is restricted and has no blanket rule
C4_Witness ==
    /\ aux.comp = "macos" /\ aux.stage = "done"
    /\ cfg.allowedDomains = <<>> /\ cfg.deniedDomains = <<>>
    /\ aux.params.NeedsNetworkRestriction
    /\ ~ProfileHasBlanketAllow(aux.profile)

\* the connections the proxy has answered, and counting in the violation log
AnsweredConns == {id \in 1..MaxConns : aux.conns[id].stage \in {"answered", "closed"}}
LoggedFor(h) == Cardinality({i \in 1..Len(aux.violations) : aux.violations[i] = [tag |-> "http", host |-> h]})
ForbiddenFor(h) == Cardinality({id \in AnsweredConns : aux.conns[id].host = h /\ aux.conns[id].status = 403})

RECURSIVE SimpleCommandsOf(_)
SimpleCommandsOf(items) ==
    LET simples == SplitSimple(items, <<>>)
        own == {simples[i] : i \in 1..Len(simples)}
        nested == {sc \in own : /\ Len(sc) >= 3
                                /\ sc[1] \in {Word(<<"s", "h">>), Word(<<"b", "a", "s", "h">>)}
                                /\ sc[2] \in {Word(<<"-", "c">>), Word(<<"-", "l", "c">>)}
                                /\ sc[3].kind = "quoted"}
    IN  own \cup UNION {SimpleCommandsOf(sc[3].body) : sc \in nested}

\* text begins with the prefix and the prefix ends at a word boundary
BeginsWith(prefix, text) ==
    /\ Len(prefix) <= Len(text)
    /\ \A i \in 1..Len(prefix) : text[i] = prefix[i]
    /\ (Len(text) > Len(prefix) => text[Len(prefix) + 1] = " ")

\* the simple commands of the input that a prefix of the deny list hits
\* at a word boundary and no allow prefix of at least that length covers
DeniedBy(deny) ==
    {Render(sc) : sc \in
        {x \in SimpleCommandsOf(aux.command) :
            \E i \in 1..Len(deny) :
                /\ BeginsWith(deny[i], Render(x))
                /\ \A j \in 1..Len(deny) :
                       BeginsWith(deny[j], Render(x)) => Len(deny[j]) <= Len(deny[i])
                /\ ~\E k \in 1..Len(aux.policy.allow) :
                       /\ BeginsWith(aux.policy.allow[k], Render(x))
                       /\ Len(aux.policy.allow[k]) >= Len(deny[i])}}

SSHRuleApplies(k) ==
    LET hostIn(l) == \E i \in 1..Len(l) : match(l[i], aux.host)
        cmdIn(l) == \E i \in 1..Len(l) : BeginsWith(l[i], aux.command) /\ Len(l[i]) > 0
        globalDeny == aux.global.deny \o (IF aux.global.useDefaults \in {"unset", "true"}
                                          THEN DefaultDeniedCommands ELSE <<>>)
    IN  CASE k = 1 -> hostIn(aux.ssh.deniedHosts)
          [] k = 2 -> ~hostIn(aux.ssh.allowedHosts)
          [] k = 3 -> aux.command = <<>>
          [] k = 4 -> cmdIn(aux.ssh.deniedCommands)
          [] k = 5 -> aux.ssh.inheritDeny /\ cmdIn(globalDeny)
          [] k = 6 -> aux.ssh.allowAllCommands
          [] k = 7 -> cmdIn(aux.ssh.allowedCommands)
          [] k = 8 -> TRUE

SSHRuleVerdict(k) == IF k \in {3, 6, 7} THEN "allow" ELSE "deny"

FirstSSHRule == CHOOSE k \in 1..8 : SSHRuleApplies(k) /\ \A j \in 1..(k - 1) : ~SSHRuleApplies(j)

\* C9: the SSH verdict is that of the first applicable rule of the list
\* denied host -> deny; host not allowed -> deny; no remote command ->
\* allow; denied command -> deny; inherit_deny and global command.deny hit
\* -> deny; allow_all_commands -> allow; allowed command prefix -> allow;
\* otherwise deny.  So denied_commands beats allow_all_commands, and an
\* interactive session to an allowed host passes with no allowed commands.
C9_SSHVerdictOrder ==
    (aux.comp = "ssh" /\ aux.stage \in {"refused", "decided"}) =>
        /\ aux.rule = FirstSSHRule
        /\ aux.verdict = SSHRuleVerdict(FirstSSHRule)
        /\ (SSHRuleApplies(4) /\ aux.ssh.allowAllCommands) => aux.verdict = "deny"
        /\ (~SSHRuleApplies(1) /\ ~SSHRuleApplies(2) /\ aux.command = <<>>) => aux.verdict = "allow"

\* C9 witness: a denied command is refused although allow_all_commands is set
C9_Witness ==
    /\ aux.comp = "ssh" /\ aux.stage = "decided"
    /\ aux.ssh.allowAllCommands
    /\ aux.command = <<"r", "m", " ", "x">>
    /\ aux.ssh.deniedCommands = << <<"r", "m">> >>
    /\ aux.verdict = "deny" /\ aux.rule = 4

\* the fields of p that are not empty (set, non-zero, true, a non-empty list)
NonEmptyFields(p) ==
    {f \in SeqFields : p[f] # <<>>} \cup {f \in BoolFields : p[f]}
    \cup {f \in TriFields : p[f] # "unset"} \cup {f \in IntFields : p[f] # 0}
    \cup (IF p.extends # "" THEN {"extends"} ELSE {})

\* the statement of the merge identity on the merge at hand
MergeIdentityHolds ==
    /\ aux.override = DefaultPolicy => aux.result = aux.base
    /\ aux.base = DefaultPolicy =>
           \A f \in NonEmptyFields(aux.override) : aux.result[f] = aux.override[f]
    /\ (aux.base.allowedDomains = << <<"a", ".", "b">> >> /\ aux.override.allowedDomains = <<Star>>)
           => aux.result.allowedDomains = << <<"a", ".", "b">>, Star >>

\* C10 as stated: for every policy p, merge(p, default) = p and
\* merge(default, p) equals p on every non-empty field; base [a] merged
\* with override [b] gives [a, b].
C10_MergeIdentity_Original ==
    (aux.comp = "merge" /\ aux.stage = "done") => MergeIdentityHolds

\* a policy whose lists hold no entry twice and whose extends is resolved
Resolved(p) ==
    /\ p.extends = ""
    /\ \A f \in SeqFields : \A i \in 1..Len(p[f]) : \A j \in 1..Len(p[f]) : p[f][i] = p[f][j] => i = j

\* C10 amended: for every policy p with no extends reference and no
\* duplicate entry in a list, merge(p, default) = p and merge(default, p)
\* equals p on every non-empty field; base [a] merged with override [b]
\* gives [a, b].
C10_MergeIdentity ==
    (aux.comp = "merge" /\ aux.stage = "done" /\ Resolved(aux.base) /\ Resolved(aux.override))
        => MergeIdentityHolds

\* C10 witness: a policy with lists, a set tri-state and a port came back
\* unchanged from the merge with the default
C10_Witness ==
    /\ aux.comp = "merge" /\ aux.stage = "done"
    /\ aux.override = DefaultPolicy
    /\ Resolved(aux.base)
    /\ Len(aux.base.allowedDomains) = 2
    /\ aux.base.useDefaults = "false" /\ aux.base.httpProxyPort # 0 /\ aux.base.allowPty
    /\ aux.result = aux.base

\* C11: the result of GetMandatoryDenyPatterns(cwd, allowGitConfig) holds,
\* for each dangerous file f, cwd/f and "**/f"; for each dangerous
\* directory d, cwd/d and "**/d/**"; cwd/.git/hooks and "**/.git/hooks/**"
\* always; cwd/.git/config and "**/.git/config" if and only if
\* allowGitConfig is false.
C11_MandatoryDenyPatterns ==
    (aux.comp = "patterns" /\ aux.stage = "done") =>
        LET has(x) == \E i \in 1..Len(aux.patterns) : aux.patterns[i] = x
        IN  /\ \A i \in 1..Len(DangerousFiles) :
                   /\ has([glob |-> FALSE, path |-> aux.cwd \o DangerousFiles[i]])
                   /\ has([glob |-> TRUE, path |-> <<"**">> \o DangerousFiles[i]])
            /\ \A i \in 1..Len(DangerousDirectories) :
                   /\ has([glob |-> FALSE, path |-> aux.cwd \o DangerousDirectories[i]])
                   /\ has([glob |-> TRUE, path |-> <<"**">> \o DangerousDirectories[i] \o <<"**">>])
            /\ has([glob |-> FALSE, path |-> aux.cwd \o <<".git", "hooks">>])
            /\ has([glob |-> TRUE, path |-> <<"**", ".git", "hooks", "**">>])
            /\ has([glob |-> FALSE, path |-> aux.cwd \o <<".git", "config">>]) <=> ~aux.allowGitConfig
            /\ has([glob |-> TRUE, path |-> <<"**", ".git", "config">>]) <=> ~aux.allowGitConfig

\* C11 witness: with the flag set the hooks are listed and the config is not
C11_Witness ==
    /\ aux.comp = "patterns" /\ aux.stage = "done"
    /\ aux.allowGitConfig
    /\ aux.cwd = <<"h", "w">>
    /\ \E i \in 1..Len(aux.patterns) : aux.patterns[i] = PathPattern(<<"h", "w", ".git", "hooks">>)
    /\ \A i \in 1..Len(aux.patterns) : aux.patterns[i] # PathPattern(<<"h", "w", ".git", "config">>)

(***************************************************************************)
(* Reading the result of a walk.                                           *)
(***************************************************************************)
WalkDone == aux.comp = "walk" /\ aux.stage = "done"

\* the catalog: entries that exist as files and entries that exist as directories
CatalogFiles == SeqToSet(DangerousFiles) \cup {GitConfig}
CatalogDirs == SeqToSet(DangerousDirectories) \cup {GitHooks}

\* the instance of catalog entry e in directory d exists in tree t
InstanceExists(t, d, e) ==
    \/ e \in CatalogFiles /\ Join(d, e) \in t.files
    \/ e \in CatalogDirs /\ Join(d, e) \in t.dirs

Reported(rel) == Contains(aux.results, Join(WalkRoot, rel))

\* d is not inside node_modules, a .git directory or a reported dangerous directory
OutsideSkipped(d) ==
    /\ \A i \in 1..Len(d) : d[i] \notin {"node_modules", ".git"}
    /\ \A k \in 1..Len(d) : ~Reported(SubSeq(d, 1, k))

\* the trailing components of path p are exactly the components of e
EndsWithComponents(p, e) ==
    Len(e) <= Len(p) /\ SubSeq(p, Len(p) - Len(e) + 1, Len(p)) = e

\* C12: after FindDangerousFiles(root, maxDepth), for every catalog entry e and
\* every directory D lying k >= 1 levels below root outside node_modules, .git
\* and reported dangerous directories, the existing D/e is in the result iff
\* k <= maxDepth; for maxDepth <= 0 the result is empty.
C12_DepthBound ==
    WalkDone =>
        /\ (aux.maxDepth <= 0 => aux.results = <<>>)
        /\ \A d \in aux.tree.dirs, e \in (CatalogFiles \cup CatalogDirs) :
               (OutsideSkipped(d) /\ InstanceExists(aux.tree, d, e))
                   => (Reported(Join(d, e)) <=> Len(d) <= aux.maxDepth)

\* C13: after FindDangerousFiles, no catalog entry located directly in root
\* (root/e) is in the result, whatever maxDepth is.
C13_NothingDirectlyInRoot ==
    WalkDone => \A e \in (CatalogFiles \cup CatalogDirs) : ~Reported(e)

\* C14: every path FindDangerousFiles reports ends, component for component,
\* with the components of a catalog entry; a directory below a component
\* that merely ends like the entry's first component is never reported.
C14_ComponentBoundary ==
    WalkDone =>
        \A i \in 1..Len(aux.results) :
            LET rel == SubSeq(aux.results[i], Len(WalkRoot) + 1, Len(aux.results[i]))
            IN  /\ \E e \in (CatalogFiles \cup CatalogDirs) : EndsWithComponents(rel, e)
                /\ \A k \in 1..Len(rel) : rel[k] # "not.claude"

\* C14 witness: a walk deep enough to visit a/not.claude/commands finished
\* without reporting it, while reporting a true .claude/commands
C14_Witness ==
    /\ WalkDone
    /\ <<"a", "not.claude", "commands">> \in aux.tree.dirs
    /\ aux.maxDepth >= 2
    /\ ~Reported(<<"a", "not.claude", "commands">>)
    /\ \E d \in aux.tree.dirs : EndsWithComponents(d, <<".claude", "commands">>) /\ Reported(d)

(***************************************************************************)
(* Reading the state of a bridge.                                          *)
(***************************************************************************)
BridgeComp == aux.comp = "bridge"

\* every process that was started is reaped and no chosen socket path is on disk
AllStopped(b) ==
    /\ \A i \in 1..Len(b.procs) : Started(b.procs[i]) => b.procs[i] = "reaped"
    /\ \A i \in 1..Len(b.paths) : b.paths[i] \notin b.files

\* C15: when NewLinuxBridge or NewReverseBridge has returned an error, every
\* socat process it started is killed and reaped and none of the socket paths
\* it chose exists; when socat is missing, no process was started.
C15_ConstructorCleansUp ==
    (BridgeComp /\ aux.ret = "err") =>
        /\ AllStopped(aux)
        /\ (~aux.socat => \A i \in 1..Len(aux.procs) : aux.procs[i] = "unset")

\* C15 witness: the constructor failed after a bridge process had been started
C15_Witness ==
    /\ BridgeComp /\ aux.ret = "err"
    /\ \E i \in 1..Len(aux.procs) : Started(aux.procs[i])

\* C16: every Cleanup call, in whatever state the bridge is and however often
\* it was called before, ends with every started process reaped and every
\* socket path of the bridge removed; Cleanup can always be taken by the
\* owner of a bridge, a repeated call included.
C16_CleanupStops ==
    /\ [][(BridgeComp /\ aux'.cleanups = aux.cleanups + 1) => AllStopped(aux')]_vars
    /\ []((BridgeComp /\ aux.ret = "ok" /\ aux.cleanups < MaxCleanups) => ENABLED BridgeCleanup)

\* C16 witness: Cleanup was called twice on a bridge whose processes had run
C16_Witness ==
    /\ BridgeComp /\ aux.ret = "ok" /\ aux.cleanups = 2
    /\ \E i \in 1..Len(aux.procs) : aux.procs[i] = "reaped"

\* loopback and the RFC1918 ranges
LoopbackAndPrivate == {"localhost", "127.0.0.1", "10.0.0.0/8", "172.16.0.0/12", "192.168.0.0/16"}

\* ports handed to GenerateProxyEnvVars
ProxyPortInputs == {0, 1080, 3128}

\* both spellings of NO_PROXY are set, each to a list holding every host of S
NoProxyCovers(vars_, S) ==
    \A n \in {"NO_PROXY", "no_proxy"} :
        \E i \in 1..Len(vars_) : vars_[i].name = n /\ S \subseteq SeqToSet(vars_[i].words)

\* the exported variables of the inner script
ScriptExports ==
    LET idx == {i \in 1..Len(innerScript) : innerScript[i].kind = "export"}
    IN  [i \in 1..Len(innerScript) |->
            IF i \in idx THEN EnvVar(innerScript[i].name, innerScript[i].words)
            ELSE EnvVar("", <<>>)]

\* C17: wherever proxy environment is produced - by GenerateProxyEnvVars with
\* a non-zero port, and by the Linux inner script when a bridge is present -
\* NO_PROXY and no_proxy hold localhost, 127.0.0.1 and the three RFC1918 ranges.
C17_NoProxyCoversPrivate ==
    /\ \A h \in ProxyPortInputs, s \in ProxyPortInputs :
           (h # 0 \/ s # 0) => NoProxyCovers(GenerateProxyEnvVars(h, s), LoopbackAndPrivate)
    /\ (pc = "done" /\ ~bridge.isNil /\ innerScript # <<>>)
           => NoProxyCovers(ScriptExports, LoopbackAndPrivate)

ShellDone == aux.comp = "shell" /\ aux.stage = "done"

\* p is s without its leading and trailing white space
IsTrimOf(p, s) ==
    /\ (p # <<>> => p[1] # " " /\ p[Len(p)] # " ")
    /\ \E i \in 1..(Len(s) + 1) :
           /\ i + Len(p) - 1 <= Len(s)
           /\ SubSeq(s, i, i + Len(p) - 1) = p
           /\ \A k \in 1..Len(s) : (k < i \/ k > i + Len(p) - 1) => s[k] = " "

\* the contiguous parts of a string
Segments(s) == {SubSeq(s, i, j) : i \in 1..(Len(s) + 1), j \in 0..Len(s)}

\* the last name of a path written in pieces
LastName(p) == IF p # <<>> /\ p[Len(p)] # "/" THEN p[Len(p)] ELSE ""

\* the contract of ResolveExecutionShell, returning in mode "user" either the
\* very value of $SHELL (exact) or that value without surrounding white space
ShellValidation(exact) ==
    ShellDone =>
        LET r == aux.result
            ok == ~r.err
        IN  /\ aux.mode = "user" =>
                  /\ ok <=> \E p \in Segments(aux.shellEnv) :
                                /\ IsTrimOf(p, aux.shellEnv)
                                /\ p # <<>> /\ p[1] = "/"
                                /\ LastName(p) \in {"sh", "bash", "zsh", "ksh", "dash", "fish"}
                                /\ aux.stat = "exec"
                  /\ ok => (IF exact THEN r.path = aux.shellEnv
                            ELSE IsTrimOf(r.path, aux.shellEnv))
            /\ aux.mode \in {"", "default"} =>
                  /\ ok <=> aux.bashOnPath # <<>>
                  /\ ok => r.path = aux.bashOnPath
            /\ aux.mode \notin {"", "default", "user"} => ~ok
            /\ ~ok => r.path = <<>> /\ r.flag = ""
            /\ ok => r.flag = (IF aux.login THEN "-lc" ELSE "-c")

\* C18 as stated: ResolveExecutionShell in mode "user" succeeds exactly when the
\* trimmed $SHELL is non-empty, absolute, named sh, bash, zsh, ksh, dash or fish
\* and an existing executable non-directory, and then returns exactly $SHELL;
\* mode "" and "default" return the bash found on PATH; any other mode fails; a
\* failure returns empty path and flag; the flag is "-lc" under login, else "-c".
C18_ShellValidation_Original == ShellValidation(TRUE)

\* C18: the same contract, the path returned in mode "user" being $SHELL with
\* its leading and trailing white space removed.
C18_ShellValidation == ShellValidation(FALSE)

\* C18 witness: a white-space padded $SHELL was accepted in mode "user"
C18_Witness ==
    /\ ShellDone /\ aux.mode = "user" /\ ~aux.result.err
    /\ aux.result.path # aux.shellEnv

JSONParsed == aux.comp = "json" /\ aux.stage = "parsed"

\* two values of a member are equal, a nil and an empty slice being the same
SameMember(kind, a, b) == IF kind = "slice" THEN a.items = b.items ELSE a = b

SameSection(kinds, a, b) == \A f \in DOMAIN kinds : SameMember(kinds[f], a[f], b[f])

SameConfig(a, b) ==
    /\ a.extends = b.extends
    /\ a.allowPty = b.allowPty
    /\ SameSection(cleanNetworkConfig, a.network, b.network)
    /\ SameSection(cleanFilesystemConfig, a.filesystem, b.filesystem)
    /\ SameSection(cleanCommandConfig, a.command, b.command)
    /\ SameSection(cleanSSHConfig, a.ssh, b.ssh)

\* C19: parsing the output of MarshalConfigJSON(p) gives a policy equal to p
\* member by member (nil and empty sequences being equal), tri-states set to
\* false and lone scalars of an otherwise empty section included.
C19_RoundTrip == JSONParsed => SameConfig(aux.parsed, aux.config)

\* C19 witness: a policy whose only content is wslInterop set to false, or
\* only allowGitConfig, came back from the round trip
C19_Witness ==
    /\ JSONParsed
    /\ \/ aux.config = [ZeroConfig EXCEPT !.filesystem.allowGitConfig = TRUE]
       \/ aux.config = [ZeroConfig EXCEPT !.filesystem.wslInterop = "false"]
    /\ aux.doc.filesystem.present

\* the options the mount plan is written with
PlanOps == MountOps \cup {"--dir"}

\* network isolation is engaged; the seccomp filter is enabled
IsolationEngaged ==
    /\ env.features.CanUnshareNet
    /\ (cfg.isNil \/ \A i \in 1..Len(cfg.allowedDomains) : cfg.allowedDomains[i] # <<"*">>)
SeccompEnabled == opts.UseSeccomp /\ env.features.HasSeccomp /\ env.seccompFilterOK

\* the binds of the bridge sockets: the two outbound sockets, then the
\* directory of the reverse sockets
BridgeSocketBinds ==
    (IF bridge.isNil THEN <<>>
     ELSE <<[op |-> "--bind", src |-> bridge.HTTPSocketPath, dst |-> bridge.HTTPSocketPath],
            [op |-> "--bind", src |-> bridge.SOCKSSocketPath, dst |-> bridge.SOCKSSocketPath]>>)
    \o (IF reverseBridge.isNil \/ reverseBridge.SocketPaths = <<>> THEN <<>>
        ELSE <<[op |-> "--bind", src |-> Dir(reverseBridge.SocketPaths[1]),
                dst |-> Dir(reverseBridge.SocketPaths[1])]>>)

\* the argument vector is: bwrap, the leading flags, mount options only, the
\* bridge binds, and "-- <shell> -c <inner script>"
ArgvInOrder(leading) ==
    LET ops == [i \in 1..Len(bwrapArgs) |-> bwrapArgs[i].op]
        head == <<"bwrap">> \o leading
        n == Len(bwrapArgs)
        nb == Len(BridgeSocketBinds)
    IN  /\ n >= Len(head) + nb + 4
        /\ SubSeq(ops, 1, Len(head)) = head
        /\ \A i \in (Len(head) + 1)..(n - 4) : ops[i] \in PlanOps
        /\ SubSeq(bwrapArgs, n - 3 - nb, n - 4) = BridgeSocketBinds
        /\ SubSeq(ops, n - 3, n) = <<"--", "shellPath", "-c", "innerScript">>

\* C20 as stated: the vector starts with --new-session, --die-with-parent and
\* --unshare-pid, then --unshare-net when network isolation is engaged, then
\* --seccomp 3 when the filter is enabled, then the mount plan, then the
\* bridge-socket binds, and ends with "-- <shell> -c <inner script>".
C20_ArgvOrder_Original ==
    pc = "done" =>
        ArgvInOrder(<<"--new-session", "--die-with-parent", "--unshare-pid">>
                    \o (IF IsolationEngaged THEN <<"--unshare-net">> ELSE <<>>)
                    \o (IF SeccompEnabled THEN <<"--seccomp", "3">> ELSE <<>>))

\* C20: the same order, --unshare-net (when engaged) standing before
\* --unshare-pid: --new-session, --die-with-parent, [--unshare-net],
\* --unshare-pid, [--seccomp 3], mount plan, bridge binds, "-- <shell> -c <script>".
C20_ArgvOrder ==
    pc = "done" =>
        ArgvInOrder(<<"--new-session", "--die-with-parent">>
                    \o (IF IsolationEngaged THEN <<"--unshare-net">> ELSE <<>>)
                    \o <<"--unshare-pid">>
                    \o (IF SeccompEnabled THEN <<"--seccomp", "3">> ELSE <<>>))

\* C20 witness: a vector built with network isolation, the seccomp filter and
\* both bridges
C20_Witness ==
    /\ pc = "done" /\ IsolationEngaged /\ SeccompEnabled
    /\ Len(BridgeSocketBinds) = 3
    /\ Len(bwrapArgs) > 0

(***************************************************************************)
(* C21                                                                     *)
(***************************************************************************)

ScriptBuilt == aux.comp = "linux" /\ pc = "done" /\ Len(innerScript) > 0

LastLine == innerScript[Len(innerScript)]

\* the five conditions under which the Landlock wrapper is selected
WrapperConditions ==
    /\ opts.UseLandlock
    /\ env.features.CanUseLandlock
    /\ Len(env.exe) > 0
    /\ ~(Len(env.exe) >= 2 /\ env.exe[1] = "tmp")
    /\ env.exe[Len(env.exe)] \in FenceLikeNames

WrapperLine ==
    [kind |-> "exec", name |-> "", value |-> env.exe,
     words |-> <<"--landlock-apply">> \o (IF opts.Debug THEN <<"--debug">> ELSE <<>>)
               \o <<"--", "bash", "-c", env.command>>]

DirectLine == [kind |-> "command", name |-> "", value |-> Root, words |-> <<env.command>>]

\* C21: the inner script ends with "exec <fence> --landlock-apply [--debug] -- bash -c <command>"
\* exactly when Landlock is requested and usable and the executable path is non-empty, outside
\* /tmp/ and named like fence; otherwise it ends with the user command run directly; exactly one
\* of the two forms appears in the script.
C21_LandlockWrapper ==
    ScriptBuilt =>
        /\ WrapperConditions <=> LastLine = WrapperLine
        /\ ~WrapperConditions <=> LastLine = DirectLine
        /\ Cardinality({i \in 1..Len(innerScript) : innerScript[i].kind \in {"exec", "command"}}) = 1

\* an executable named like fence under /tmp, Landlock requested and usable: the command runs directly
C21_Witness ==
    /\ ScriptBuilt
    /\ opts.UseLandlock /\ env.features.CanUseLandlock
    /\ Len(env.exe) >= 2 /\ env.exe[1] = "tmp" /\ env.exe[Len(env.exe)] \in FenceLikeNames
    /\ LastLine = DirectLine

(***************************************************************************)
(* C22                                                                     *)
(***************************************************************************)

DenyReturned == aux.comp = "deny" /\ aux.returned

\* the rules in force: the policy's, then the catalog unless use_defaults is false
RulesInForce ==
    aux.policy.deny \o (IF aux.policy.useDefaults = "false" THEN <<>> ELSE DefaultDenyRules)

\* a rule that, trimmed, is one token free of shell syntax characters
SingleCleanToken(rule) ==
    LET tokens == tokenizeCommand(TrimSpace(rule))
    IN  Len(tokens) = 1 /\ \A i \in 1..Len(tokens[1]) : tokens[1][i] \notin RuntimeSyntaxChars

Contribution(rule) ==
    LET paths == resolveExecutablePaths(aux.host, TrimSpace(tokenizeCommand(TrimSpace(rule))[1]))
    IN  {paths[i] : i \in 1..Len(paths)}

\* C22: the result holds exactly the paths resolved from the deny rules that, trimmed, are a
\* single token without shell syntax characters (rules with arguments add nothing);
\* the catalog rules count unless use_defaults is false; the result is strictly ascending (sorted,
\* no duplicates); without a policy the result is empty.
C22_RuntimeDenied ==
    DenyReturned =>
        IF aux.policy.isNil THEN aux.paths = <<>>
        ELSE /\ {aux.paths[i] : i \in 1..Len(aux.paths)}
                = UNION {Contribution(RulesInForce[i]) :
                            i \in {j \in 1..Len(RulesInForce) : SingleCleanToken(RulesInForce[j])}}
             /\ \A i \in 1..(Len(aux.paths) - 1) : PathRank(aux.paths[i]) < PathRank(aux.paths[i + 1])

\* a rule with arguments whose command exists on the host adds nothing, next to a rule that does
C22_Witness ==
    /\ DenyReturned
    /\ ~aux.policy.isNil
    /\ aux.policy.useDefaults = "false"
    /\ Len(aux.paths) >= 2
    /\ \E i \in 1..Len(aux.policy.deny) :
        LET tokens == tokenizeCommand(aux.policy.deny[i])
        IN  /\ Len(tokens) = 2
            /\ resolveExecutablePaths(aux.host, tokens[1]) # <<>>
            /\ \A k \in 1..Len(aux.paths) : ~Contains(resolveExecutablePaths(aux.host, tokens[1]), aux.paths[k])

(***************************************************************************)
(* C23, C24                                                                *)
(***************************************************************************)

RelayComp == aux.comp = "relay"

\* a resize signal is received in this step
WinchReceived ==
    /\ aux.sigChan # <<>> /\ Head(aux.sigChan) = "SIGWINCH" /\ aux.process
    /\ Len(aux'.received) = Len(aux.received) + 1 /\ aux'.sigChan = Tail(aux.sigChan)

DebouncePending == RelayComp /\ aux.debouncer.ch # 0

\* C23: a resize signal received while a debounce is pending re-arms the same timer and keeps the
\* same channel; the channel is nil from the forward until the next resize signal; every burst
\* of resize signals ends in exactly one forward, a full delay after its last signal.
C23_Debounce ==
    /\ [][RelayComp =>
            /\ (WinchReceived /\ aux.debouncer.ch # 0) =>
                    /\ aux'.debouncer.timer = aux.debouncer.timer
                    /\ aux'.debouncer.ch = aux.debouncer.ch
                    /\ aux'.debouncer.deadline = aux.now + DebounceDelay
            /\ (aux'.forwards # aux.forwards) => aux'.debouncer.ch = 0
            /\ (aux.debouncer.ch = 0 /\ aux'.debouncer.ch # 0) => WinchReceived]_vars
    /\ [](RelayComp =>
            /\ aux.forwards = aux.bursts - (IF aux.debouncer.ch # 0 THEN 1 ELSE 0)
            /\ (aux.forwards > 0 /\ aux.debouncer.ch = 0) => aux.lastForward = aux.lastWinch + DebounceDelay)
    /\ \A n \in 1..MaxSignals :
        (DebouncePending /\ aux.bursts = n) ~> (RelayComp /\ (aux.forwards = n \/ aux.done))

\* a burst of two resize signals has been answered by a single forward
C23_Witness ==
    /\ RelayComp
    /\ aux.forwards = 1 /\ aux.bursts = 1
    /\ Len(SelectSeq(aux.received, LAMBDA s : s = "SIGWINCH")) >= 2
    /\ aux.lastWinch > 0

\* the interrupt and termination signals received so far, in order
Interrupts == SelectSeq(aux.received, LAMBDA s : s \in {"SIGINT", "SIGTERM"})

\* C24: with a child process, the first SIGINT or SIGTERM received is forwarded as it is, to the
\* PTY foreground process group or else to the child, and every later one sends SIGKILL to the
\* child; resize signals never advance the escalation count.
C24_Escalation ==
    (RelayComp /\ aux.process) =>
        /\ aux.sigCount = Len(Interrupts)
        /\ Len(aux.sent) = Len(Interrupts)
        /\ \A k \in 1..Len(aux.sent) :
            IF k = 1 THEN aux.sent[k].sig = Interrupts[1] /\ aux.sent[k].to \in {"pgrp", "child"}
            ELSE aux.sent[k] = [sig |-> "SIGKILL", to |-> "child"]

\* a resize signal came between the forwarded interrupt and the one answered by SIGKILL
C24_Witness ==
    /\ RelayComp /\ aux.process
    /\ aux.received = <<"SIGINT", "SIGWINCH", "SIGTERM">>
    /\ aux.sent = <<[sig |-> "SIGINT", to |-> "pgrp"], [sig |-> "SIGKILL", to |-> "child"]>>

(***************************************************************************)
(* C25, C30                                                                *)
(***************************************************************************)

\* the pids reached from p by following parents, p excluded
RECURSIVE AncestorsWithin(_, _, _)
AncestorsWithin(m, p, n) ==
    IF n = 0 \/ p = 0 \/ m[p] = 0 THEN {}
    ELSE {m[p]} \cup AncestorsWithin(m, m[p], n - 1)

\* C25: a call sends at most max signals, at most one to any pid, none to root, and only to pids
\* whose parent chain in the snapshot reaches root.
C25_TreeSignals ==
    aux.comp = "tree" =>
        /\ Len(aux.sent) <= aux.maxSignals
        /\ \A i, j \in 1..Len(aux.sent) : i # j => aux.sent[i] # aux.sent[j]
        /\ \A i \in 1..Len(aux.sent) :
            /\ aux.sent[i] # aux.rootPID
            /\ aux.rootPID \in AncestorsWithin(aux.parentPID, aux.sent[i], MaxPid)

\* the cap cut the broadcast short: a descendant of root was left unsignalled
C25_Witness ==
    /\ aux.comp = "tree" /\ aux.at = "returned"
    /\ Len(aux.sent) = aux.maxSignals /\ aux.maxSignals >= 1
    /\ \E p \in Pids : /\ p # aux.rootPID
                       /\ aux.rootPID \in AncestorsWithin(aux.parentPID, p, MaxPid)
                       /\ \A i \in 1..Len(aux.sent) : aux.sent[i] # p

\* C30: isDescendantOfRoot returns for every parent map, maps with a cycle of two or more pids
\* off root included.
C30_Terminates == <>(aux.comp = "descend" /\ aux.at = "returned")

(***************************************************************************)
(* C29                                                                     *)
(***************************************************************************)

\* C29: under every interleaving of the output's end and the cleanup calls the terminal is restored
\* exactly once and the PTY master closed exactly once (neither twice, both done when any
\* participant has finished) and the done channel is closed at most once.
C29_TeardownOnce ==
    aux.comp = "teardown" =>
        /\ aux.restored <= 1 /\ aux.ptmxClosed <= 1 /\ aux.doneClosed <= 1
        /\ (\E p \in {Copier} \cup Callers : aux.at[p] = "finished")
                => (aux.restored = 1 /\ aux.ptmxClosed = 1)
        /\ (\E c \in Callers : aux.at[c] \in {"cleanupOnce", "restoreTTY", "closePTY", "finished"})
                => aux.doneClosed = 1

\* the output ended and every cleanup call returned
C29_Witness ==
    /\ aux.comp = "teardown"
    /\ \A p \in {Copier} \cup Callers : aux.at[p] = "finished"
    /\ aux.restored = 1 /\ aux.ptmxClosed = 1 /\ aux.doneClosed = 1

(***************************************************************************)
(* C26                                                                     *)
(***************************************************************************)

\* the host paths the policy and the bridges make writable
WritableByPolicy ==
    {GetDefaultWritePaths[i] : i \in 1..Len(GetDefaultWritePaths)}
    \cup (IF cfg.isNil THEN {}
          ELSE {NormalizePath(cfg.allowWrite[i]).path :
                    i \in {j \in 1..Len(cfg.allowWrite) : ~cfg.allowWrite[j].glob}}
               \cup UNION {Children(NormalizePath(cfg.allowWrite[i]).path) :
                              i \in {j \in 1..Len(cfg.allowWrite) : cfg.allowWrite[j].glob}})
    \cup (IF bridge.isNil THEN {} ELSE {bridge.HTTPSocketPath, bridge.SOCKSSocketPath})
    \cup (IF reverseBridge.isNil THEN {}
          ELSE {reverseBridge.SocketPaths[i] : i \in 1..Len(reverseBridge.SocketPaths)})

\* C26: every writable bind "--bind SRC DST" of the argument vector has for SRC an existing default
\* write path, an allow_write path (normalized or expanded from a glob) or a bridge socket file;
\* exposed ports make no other host directory writable.
C26_WritableOnlyByPolicy ==
    (aux.comp = "linux" /\ pc = "done") =>
        \A i \in 1..Len(bwrapArgs) :
            bwrapArgs[i].op = "--bind" =>
                /\ bwrapArgs[i].src \in WritableByPolicy
                /\ fileExists(bwrapArgs[i].src)

(***************************************************************************)
(* C27, C28                                                                *)
(***************************************************************************)

\* the paths a list names: its plain entries normalized, its globs expanded
NamedBy(list) == SeqToSet(NonGlobPaths(list)) \cup SeqToSet(ExpandGlobPatterns(list))

\* existing allow_read and allow_execute paths outside /dev/ and /proc/
AllowedReadPaths ==
    {p \in NamedBy(cfg.allowRead) \cup NamedBy(cfg.allowExecute) :
        fileExists(p) /\ ~HasTopPrefix(p, "dev") /\ ~HasTopPrefix(p, "proc")}

\* C27: with default_deny_read every existing allow_read or allow_execute path outside /dev/ and
\* /proc/ is bound read-only, and no later argument mounts a tmpfs or a bind at the path or at an
\* ancestor of it, unless deny_read or the mandatory-deny set names the path.
C27_AllowReadVisible ==
    (aux.comp = "linux" /\ pc = "done" /\ ~cfg.isNil /\ cfg.defaultDenyRead) =>
        \A p \in AllowedReadPaths :
            \E i \in 1..Len(bwrapArgs) :
                /\ bwrapArgs[i] = M("--ro-bind", p, p)
                /\ (p \notin NamedBy(cfg.denyRead) /\ p \notin SeqToSet(getMandatoryDenyPaths(env.cwd)))
                    => \A j \in (i + 1)..Len(bwrapArgs) :
                          ~(/\ bwrapArgs[j].op \in {"--tmpfs", "--bind", "--ro-bind", "--dev-bind"}
                            /\ IsAncestorOrSelf(bwrapArgs[j].dst, p))

\* existing allow_read, allow_execute and allow_write paths on another device than /
CrossDevicePaths ==
    {p \in NamedBy(cfg.allowRead) \cup NamedBy(cfg.allowExecute) \cup NamedBy(cfg.allowWrite) :
        fileExists(p) /\ ~sameDevice(p)}

\* C28: without default_deny_read every existing listed path on another device than / is bound at
\* itself, writable exactly when allow_write names it, whatever the order of the lists and also
\* when one listed path is an ancestor of another.
C28_CrossMountBound ==
    (aux.comp = "linux" /\ pc = "done" /\ ~cfg.isNil /\ ~cfg.defaultDenyRead) =>
        \A p \in CrossDevicePaths :
            IF p \in NamedBy(cfg.allowWrite)
            THEN \E i \in 1..Len(bwrapArgs) : bwrapArgs[i] = M("--bind", p, p)
            ELSE /\ \E i \in 1..Len(bwrapArgs) : bwrapArgs[i] = M("--ro-bind", p, p)
                 /\ \A i \in 1..Len(bwrapArgs) : bwrapArgs[i] # M("--bind", p, p)

====
